---- MODULE Spec2Model ----
(***************************************************************************)
(* Trait point-cost computation, trait tree and list loaders of GCS        *)
(* (model/gurps/trait.go, trait_modifier.go, note.go).                     *)
(*                                                                         *)
(* The specifications of the module:                                       *)
(*   Spec       the trait tree: NewTrait, the editor's ApplyTo and         *)
(*              Trait.AdjustedPoints over nested containers                *)
(*   SpecAlt    one alternative-abilities container and its alternatives   *)
(*   SpecCost   the leaf cost function AdjustedPoints over modifier lists  *)
(*   SpecLoad   the list loaders New*FromFile                              *)
(*   SpecFile   loading a list file row by row and saving it again         *)
(*   SpecFields the editor's ApplyTo and ClearUnusedFieldsForType          *)
(*   SpecNote   the methods of Note over a store of notes                  *)
(*   SpecClone  Clone of traits, trait modifiers and notes                 *)
(*   SpecOwner  SetOwningEntity                                            *)
(*   SpecNames  FillWithNameableKeys and ApplyNameableKeys                 *)
(*   SpecLegacy loading trait lists of the old format                      *)
(*   SpecConvert Note.ConvertToContainer and ConvertToNonContainer         *)
(*   SpecCalc   loading and saving list files with stored calc blocks      *)
(*   SpecLevels AdjustedPoints and CostDescription of leveled modifiers    *)
(*   SpecColors the theme colors (model/colors/colors.go)                  *)
(***************************************************************************)
EXTENDS Integers, Sequences, FiniteSets, TLC

VARIABLES traits, useMult, leaf, call, load, file, heap, names, theme

vars == <<traits, useMult, leaf, call, load, file, heap, names, theme>>

(***************************************************************************)
(* Bounds of the model.                                                    *)
(***************************************************************************)
MaxNodes == 3
MaxTreeMods == 1
MaxAlternatives == 3
MaxMods == 2
MaxVersion == 6
MaxRows == 1

(***************************************************************************)
(* fxp.Int: fixed-point numbers with four decimal places, held as the      *)
(* integer value * 10000.  The package is not part of the sources at hand; *)
(* products and quotients drop the digits beyond the fourth place.         *)
(***************************************************************************)
fxpMultiplier == 10000

FP(i) == i * fxpMultiplier

Abs(x) == IF x < 0 THEN -x ELSE x

Sgn(x) == IF x < 0 THEN -1 ELSE 1

\* integer division truncating toward zero, as Go's / on int64
TruncDiv(a, d) == Sgn(a) * Sgn(d) * (Abs(a) \div Abs(d))

\* |a| * |b| / 10000 without forming the full product
MulMag(a, b) ==
    LET ai == a \div fxpMultiplier
        af == a % fxpMultiplier
        bi == b \div fxpMultiplier
        bf == b % fxpMultiplier
    IN  ai * bi * fxpMultiplier + ai * bf + af * bi + ((af * bf) \div fxpMultiplier)

\* fxp.Int.Mul: f * value / 10000
Mul(a, b) == Sgn(a) * Sgn(b) * MulMag(Abs(a), Abs(b))

\* fxp.Int.Div: f * 10000 / value
Div(a, b) ==
    IF b % fxpMultiplier = 0
    THEN TruncDiv(a, b \div fxpMultiplier)
    ELSE TruncDiv(a * fxpMultiplier, b)

FxpMax(a, b) == IF a > b THEN a ELSE b

Twenty == FP(20)
Eighty == FP(80)
Hundred == FP(100)

\* fxp.ApplyRounding: toward the lower integer when roundDown, otherwise to
\* the nearest integer with ties away from zero
ApplyRounding(value, roundDown) ==
    IF value % fxpMultiplier = 0 THEN value
    ELSE IF roundDown THEN (value \div fxpMultiplier) * fxpMultiplier
    ELSE Sgn(value) * ((Abs(value) + (fxpMultiplier \div 2)) \div fxpMultiplier) * fxpMultiplier

(***************************************************************************)
(* Enumerations (model/gurps/enums).                                       *)
(***************************************************************************)
Percentage == "percentage"
Points == "points"
Multiplier == "multiplier"
UnknownCostType == "unknown"

Total == "total"
BaseOnly == "base_only"
LevelsOnly == "levels_only"

Group == "group"
AlternativeAbilities == "alternative_abilities"

NoCR == "NoCR"
CR6 == "CR6"
CR9 == "CR9"
CR12 == "CR12"
CR15 == "CR15"

\* selfctrl.Roll.Multiplier
CRMultiplier(cr) ==
    CASE cr = CR6 -> FP(2)
      [] cr = CR9 -> 15000
      [] cr = CR12 -> FP(1)
      [] cr = CR15 -> 5000
      [] OTHER -> FP(1)

(***************************************************************************)
(* Trait modifiers.                                                        *)
(***************************************************************************)
\* NewTraitModifier for a leaf, with the edited fields filled in
LeafMod(costType, cost, levels, aff, disabled) ==
    [Container |-> FALSE, Children |-> <<>>, CostType |-> costType, Cost |-> cost,
     Levels |-> levels, Affects |-> aff, Disabled |-> disabled]

\* NewTraitModifier for a container holding children
ContainerMod(children) ==
    [Container |-> TRUE, Children |-> children, CostType |-> Percentage, Cost |-> 0,
     Levels |-> 0, Affects |-> Total, Disabled |-> FALSE]

\* TraitModifier.Enabled
ModEnabled(m) == (~m.Disabled) \/ m.Container

\* ContainerBase.HasChildren
ModHasChildren(m) == m.Container /\ Len(m.Children) > 0

\* TraitModifier.CostModifier
CostModifier(m) == IF m.Levels > 0 THEN Mul(m.Cost, m.Levels) ELSE m.Cost

\* TraitModifier.IsLeveled
ModIsLeveled(m) == (~m.Container) /\ m.CostType = Percentage /\ m.Levels > 0

\* Traverse(f, true, true, in...): the modifiers the callback is handed, in
\* visiting order (enabled non-containers, descending into enabled containers)
RECURSIVE Traverse(_)
Traverse(in) ==
    IF in = <<>> THEN <<>>
    ELSE LET one == Head(in)
             visit == IF ModEnabled(one) /\ ~one.Container THEN <<one>> ELSE <<>>
             below == IF ModEnabled(one) /\ ModHasChildren(one)
                      THEN Traverse(one.Children) ELSE <<>>
         IN  visit \o below \o Traverse(Tail(in))

(***************************************************************************)
(* AdjustedPoints (the package-level function).                            *)
(***************************************************************************)
\* lines 1033-1036: a trait that cannot level has no levels
LevelingValueKept(canLevel, v) == v

LevelingValue(canLevel, v) == IF ~canLevel THEN 0 ELSE v

\* the callback handed to Traverse, lines 1039-1076: one modifier folded
\* into the accumulators
ApplyModifier(acc, mod, canLevel) ==
    LET modifier == CostModifier(mod) IN
    CASE mod.CostType = Percentage ->
           (CASE mod.Affects = Total ->
                   IF modifier < 0
                   THEN [acc EXCEPT !.baseLim = @ + modifier, !.levelLim = @ + modifier]
                   ELSE [acc EXCEPT !.baseEnh = @ + modifier, !.levelEnh = @ + modifier]
              [] mod.Affects = BaseOnly ->
                   IF modifier < 0
                   THEN [acc EXCEPT !.baseLim = @ + modifier]
                   ELSE [acc EXCEPT !.baseEnh = @ + modifier]
              [] mod.Affects = LevelsOnly ->
                   IF modifier < 0
                   THEN [acc EXCEPT !.levelLim = @ + modifier]
                   ELSE [acc EXCEPT !.levelEnh = @ + modifier]
              [] OTHER -> acc)
      [] mod.CostType = Points ->
           IF mod.Affects = LevelsOnly
           THEN (IF canLevel THEN [acc EXCEPT !.pointsPerLevel = @ + modifier] ELSE acc)
           ELSE [acc EXCEPT !.basePoints = @ + modifier]
      [] mod.CostType = Multiplier ->
           [acc EXCEPT !.multiplier = Mul(@, modifier)]
      [] OTHER -> acc

\* the traversal of lines 1039-1077, the callback run on each visited modifier
RECURSIVE FoldModifiersStopAtMultiplier(_, _, _)
FoldModifiersStopAtMultiplier(acc, visited, canLevel) ==
    IF visited = <<>> THEN acc
    ELSE IF Head(visited).CostType = Multiplier
         THEN ApplyModifier(acc, Head(visited), canLevel)
         ELSE FoldModifiersStopAtMultiplier(ApplyModifier(acc, Head(visited), canLevel),
                                            Tail(visited), canLevel)

RECURSIVE FoldModifiers(_, _, _)
FoldModifiers(acc, visited, canLevel) ==
    IF visited = <<>> THEN acc
    ELSE FoldModifiers(ApplyModifier(acc, Head(visited), canLevel), Tail(visited), canLevel)

\* calculateModifierPoints
calculateModifierPoints(points, modifier) == Div(Mul(points, modifier), Hundred)

\* modifyPoints
modifyPoints(points, modifier) == points + calculateModifierPoints(points, modifier)

\* the floor of a limitation percentage, (-fxp.Eighty).Max(x)
FloorAtEightyOff(x) == x

FloorAtEighty(x) == FxpMax(-Eighty, x)

\* lines 1082-1087: enhancement, then limitation, as two steps
MultiplicativePointsEnhOnly(acc, leveledPoints) ==
    IF acc.baseEnh = acc.levelEnh
    THEN modifyPoints(modifyPoints(acc.basePoints + leveledPoints, acc.baseEnh),
                      FloorAtEighty(acc.baseLim))
    ELSE modifyPoints(modifyPoints(acc.basePoints, acc.baseEnh), FloorAtEighty(acc.baseLim))
         + modifyPoints(modifyPoints(leveledPoints, acc.levelEnh), FloorAtEighty(acc.levelLim))

MultiplicativePoints(acc, leveledPoints) ==
    IF acc.baseEnh = acc.levelEnh /\ acc.baseLim = acc.levelLim
    THEN modifyPoints(modifyPoints(acc.basePoints + leveledPoints, acc.baseEnh),
                      FloorAtEighty(acc.baseLim))
    ELSE modifyPoints(modifyPoints(acc.basePoints, acc.baseEnh), FloorAtEighty(acc.baseLim))
         + modifyPoints(modifyPoints(leveledPoints, acc.levelEnh), FloorAtEighty(acc.levelLim))

\* lines 1089-1095: enhancement and limitation summed into one percentage
AdditivePointsBaseModOnly(acc, leveledPoints) ==
    modifyPoints(acc.basePoints + leveledPoints, FloorAtEighty(acc.baseEnh + acc.baseLim))

AdditivePoints(acc, leveledPoints) ==
    LET baseMod == FloorAtEighty(acc.baseEnh + acc.baseLim)
        levelMod == FloorAtEighty(acc.levelEnh + acc.levelLim)
    IN  IF baseMod = levelMod
        THEN modifyPoints(acc.basePoints + leveledPoints, baseMod)
        ELSE modifyPoints(acc.basePoints, baseMod) + modifyPoints(leveledPoints, levelMod)

\* lines 1078-1099: the base cost after the percentage modifiers
ModifiedBasePoints(multiplicative, acc, leveledPoints) ==
    IF acc.baseEnh # 0 \/ acc.baseLim # 0 \/ acc.levelEnh # 0 \/ acc.levelLim # 0
    THEN IF multiplicative
         THEN MultiplicativePoints(acc, leveledPoints)
         ELSE AdditivePoints(acc, leveledPoints)
    ELSE acc.basePoints + leveledPoints

\* the accumulators after the traversal of the modifiers
Accumulate(canLevel, basePoints, pointsPerLevel, cr, modifiers) ==
    FoldModifiers([baseEnh |-> 0, levelEnh |-> 0, baseLim |-> 0, levelLim |-> 0,
                   basePoints |-> basePoints,
                   pointsPerLevel |-> LevelingValue(canLevel, pointsPerLevel),
                   multiplier |-> CRMultiplier(cr)],
                  Traverse(modifiers), canLevel)

\* AdjustedPoints(entity, canLevel, basePoints, levels, pointsPerLevel, cr,
\* modifiers, roundCostDown); the entity supplies UseMultiplicativeModifiers
AdjustedPoints(multiplicative, canLevel, basePoints, levels, pointsPerLevel, cr, modifiers, roundCostDown) ==
    LET acc == Accumulate(canLevel, basePoints, pointsPerLevel, cr, modifiers)
        leveledPoints == Mul(acc.pointsPerLevel, LevelingValue(canLevel, levels))
    IN  ApplyRounding(Mul(ModifiedBasePoints(multiplicative, acc, leveledPoints),
                          acc.multiplier), roundCostDown)

(***************************************************************************)
(* TraitModifier.CostDescription.  A string is modelled as the sequence of *)
(* its pieces; a number is formatted as sign, integer digits and the four  *)
(* fractional digits.                                                      *)
(***************************************************************************)
\* fxp.Int.String
FxpString(v) == <<(IF v < 0 THEN "-" ELSE ""), Abs(v) \div fxpMultiplier, Abs(v) % fxpMultiplier>>

\* fxp.Int.StringWithSign
FxpStringWithSign(v) == <<(IF v < 0 THEN "-" ELSE "+"), Abs(v) \div fxpMultiplier, Abs(v) % fxpMultiplier>>

\* affects.Option.AltString
AltString(aff) ==
    CASE aff = BaseOnly -> "(base only)"
      [] aff = LevelsOnly -> "(levels only)"
      [] OTHER -> ""

\* tmcost.Type.String
CostTypeString(costType) ==
    CASE costType = Percentage -> "%"
      [] costType = Points -> "points"
      [] costType = Multiplier -> "x"
      [] OTHER -> ""

CostDescription(m) ==
    IF m.Container THEN <<>>
    ELSE IF m.CostType = Multiplier THEN <<CostTypeString(m.CostType)>> \o FxpString(m.Cost)
    ELSE LET base == CASE m.CostType = Percentage ->
                            (IF ModIsLeveled(m)
                             THEN FxpStringWithSign(Mul(m.Cost, m.Levels))
                             ELSE FxpStringWithSign(m.Cost)) \o <<CostTypeString(Percentage)>>
                       [] m.CostType = Points -> FxpStringWithSign(m.Cost)
                       [] OTHER -> FxpStringWithSign(m.Cost) \o <<CostTypeString(Percentage)>>
         IN  IF AltString(m.Affects) # "" THEN base \o <<" ", AltString(m.Affects)>> ELSE base

(***************************************************************************)
(* SpecCost: one leaf trait's cost inputs, the modifiers visible to it and *)
(* the calls made on them.                                                 *)
(***************************************************************************)
Enh50 == LeafMod(Percentage, FP(50), 0, Total, FALSE)
Lim50 == LeafMod(Percentage, FP(-50), 0, Total, FALSE)
Lim45x2 == LeafMod(Percentage, FP(-45), FP(2), Total, FALSE)
Lim90Base == LeafMod(Percentage, FP(-90), 0, BaseOnly, FALSE)
Enh20Levels == LeafMod(Percentage, FP(20), 0, LevelsOnly, FALSE)
Pts5 == LeafMod(Points, FP(5), 0, Total, FALSE)
Pts3Levels == LeafMod(Points, FP(3), 0, LevelsOnly, FALSE)
MulSixteenth == LeafMod(Multiplier, 625, 0, Total, FALSE)
Mul16 == LeafMod(Multiplier, FP(16), 0, Total, FALSE)
Unknown50 == LeafMod(UnknownCostType, FP(50), 0, Total, FALSE)
Off50 == LeafMod(Percentage, FP(50), 0, Total, TRUE)
Box == ContainerMod(<<Lim50, Off50>>)

ModPool == {Enh50, Lim50, Lim45x2, Lim90Base, Enh20Levels, Pts5, Pts3Levels,
            MulSixteenth, Mul16, Unknown50, Off50, Box}

LeafInputs ==
    [CanLevel : BOOLEAN, BasePoints : {FP(2), FP(10)}, Levels : {FP(2)},
     PointsPerLevel : {FP(5)}, CR : {NoCR, CR15}, Modifiers : {<<>>},
     RoundCostDown : BOOLEAN]

NoCall == [op |-> "none"]

\* the theme colors are not in use
NoTheme == [op |-> "none"]

NoLeaf == [CanLevel |-> FALSE, BasePoints |-> 0, Levels |-> 0, PointsPerLevel |-> 0,
           CR |-> NoCR, Modifiers |-> <<>>, RoundCostDown |-> FALSE]

InitCost ==
    /\ theme = NoTheme
    /\ leaf \in LeafInputs
    /\ useMult \in BOOLEAN
    /\ call = NoCall
    /\ traits = <<>>
    /\ load = NoCall
    /\ file = NoCall
    /\ heap = <<>>
    /\ names = NoCall

\* the editor appends a modifier to the list the leaf sees
AddModifier(m) ==
    /\ Len(leaf.Modifiers) < MaxMods
    /\ leaf' = [leaf EXCEPT !.Modifiers = Append(@, m)]
    /\ call' = NoCall
    /\ UNCHANGED <<traits, useMult, load, file, heap, names, theme>>

LeafCost(l, multiplicative) ==
    AdjustedPoints(multiplicative, l.CanLevel, l.BasePoints, l.Levels, l.PointsPerLevel,
                   l.CR, l.Modifiers, l.RoundCostDown)

CallAdjustedPoints ==
    /\ call' = [op |-> "AdjustedPoints", ret |-> LeafCost(leaf, useMult)]
    /\ UNCHANGED <<traits, useMult, leaf, load, file, heap, names, theme>>

CallCostDescription(i) ==
    /\ i \in 1..Len(leaf.Modifiers)
    /\ call' = [op |-> "CostDescription", index |-> i, ret |-> CostDescription(leaf.Modifiers[i])]
    /\ UNCHANGED <<traits, useMult, leaf, load, file, heap, names, theme>>

NextCost ==
    \/ \E m \in ModPool : AddModifier(m)
    \/ CallAdjustedPoints
    \/ \E i \in 1..MaxMods : CallCostDescription(i)

SpecCost == InitCost /\ [][NextCost]_vars

(***************************************************************************)
(* Reference quantities for the cost claims, computed from the list of     *)
(* visible modifiers without the accumulator fold.                         *)
(***************************************************************************)
Visible(l) == Traverse(l.Modifiers)

RECURSIVE SumLast(_, _)
SumLast(terms, n) == IF n = 0 THEN 0 ELSE terms[n] + SumLast(terms, n - 1)

SumOver(ms, Term(_)) == SumLast([i \in 1..Len(ms) |-> Term(ms[i])], Len(ms))

InBase(m) == m.Affects \in {Total, BaseOnly}
InLevels(m) == m.Affects \in {Total, LevelsOnly}

EnhTerm(m, In(_)) ==
    IF m.CostType = Percentage /\ In(m) /\ CostModifier(m) >= 0 THEN CostModifier(m) ELSE 0
LimTerm(m, In(_)) ==
    IF m.CostType = Percentage /\ In(m) /\ CostModifier(m) < 0 THEN CostModifier(m) ELSE 0

BaseEnhOf(l) == LET T(m) == EnhTerm(m, InBase) IN SumOver(Visible(l), T)
BaseLimOf(l) == LET T(m) == LimTerm(m, InBase) IN SumOver(Visible(l), T)
LevelEnhOf(l) == LET T(m) == EnhTerm(m, InLevels) IN SumOver(Visible(l), T)
LevelLimOf(l) == LET T(m) == LimTerm(m, InLevels) IN SumOver(Visible(l), T)

BasePointsOf(l) ==
    LET T(m) == IF m.CostType = Points /\ m.Affects # LevelsOnly THEN CostModifier(m) ELSE 0
    IN  l.BasePoints + SumOver(Visible(l), T)

LeveledPointsOf(l) ==
    LET T(m) == IF m.CostType = Points /\ m.Affects = LevelsOnly THEN CostModifier(m) ELSE 0
    IN  IF l.CanLevel
        THEN Mul(l.PointsPerLevel + SumOver(Visible(l), T), l.Levels)
        ELSE 0

RECURSIVE RunningMultiplier(_, _)
RunningMultiplier(seed, ms) ==
    IF ms = <<>> THEN seed
    ELSE RunningMultiplier(IF Head(ms).CostType = Multiplier
                           THEN Mul(seed, CostModifier(Head(ms))) ELSE seed, Tail(ms))

MultiplierOf(l) == RunningMultiplier(CRMultiplier(l.CR), Visible(l))

AnyPercentage(l) ==
    BaseEnhOf(l) # 0 \/ BaseLimOf(l) # 0 \/ LevelEnhOf(l) # 0 \/ LevelLimOf(l) # 0

\* "V increased by P percent": V + V*P/100
Increase(v, p) == v + Div(Mul(v, p), Hundred)

AtLeastMinus80(x) == IF x < FP(-80) THEN FP(-80) ELSE x

FinalCost(l, modifiedBase) == ApplyRounding(Mul(modifiedBase, MultiplierOf(l)), l.RoundCostDown)

Returned == call.op = "AdjustedPoints"

\* the leaf of the worked example: 10 base points, 2 levels at 5 points,
\* one +50% modifier on the total, no self-control roll
ExampleLeaf(l) ==
    /\ l.CanLevel /\ l.BasePoints = FP(10) /\ l.Levels = FP(2)
    /\ l.PointsPerLevel = FP(5) /\ l.CR = NoCR /\ l.Modifiers = <<Enh50>>

\* C4: under the additive policy, with a non-zero percentage bucket, the cost
\* is built from baseMod = max(-80, baseEnh + baseLim) and levelMod =
\* max(-80, levelEnh + levelLim): applied once to basePoints + leveledPoints
\* when they are equal, separately otherwise; the worked example costs 30.
Thm_C4_AdditivePolicy ==
    (Returned /\ ~useMult /\ AnyPercentage(leaf)) =>
        LET baseMod == AtLeastMinus80(BaseEnhOf(leaf) + BaseLimOf(leaf))
            levelMod == AtLeastMinus80(LevelEnhOf(leaf) + LevelLimOf(leaf))
            modifiedBase ==
                IF baseMod = levelMod
                THEN Increase(BasePointsOf(leaf) + LeveledPointsOf(leaf), baseMod)
                ELSE Increase(BasePointsOf(leaf), baseMod) + Increase(LeveledPointsOf(leaf), levelMod)
        IN  /\ call.ret = FinalCost(leaf, modifiedBase)
            /\ ExampleLeaf(leaf) => call.ret = FP(30)

Wit_C4_Example == Returned /\ ~useMult /\ ExampleLeaf(leaf) /\ call.ret = FP(30)

\* C5: under the multiplicative policy, with a non-zero percentage bucket, the
\* enhancement percentage and then the limitation percentage (floored at -80)
\* are applied as two sequential steps: once to basePoints + leveledPoints when
\* baseEnh = levelEnh and baseLim = levelLim, otherwise to each part with its
\* own pair, the two results being summed.
Thm_C5_MultiplicativePolicy ==
    (Returned /\ useMult /\ AnyPercentage(leaf)) =>
        LET TwoSteps(v, enh, lim) == Increase(Increase(v, enh), AtLeastMinus80(lim))
            modifiedBase ==
                IF BaseEnhOf(leaf) = LevelEnhOf(leaf) /\ BaseLimOf(leaf) = LevelLimOf(leaf)
                THEN TwoSteps(BasePointsOf(leaf) + LeveledPointsOf(leaf), BaseEnhOf(leaf), BaseLimOf(leaf))
                ELSE TwoSteps(BasePointsOf(leaf), BaseEnhOf(leaf), BaseLimOf(leaf))
                     + TwoSteps(LeveledPointsOf(leaf), LevelEnhOf(leaf), LevelLimOf(leaf))
        IN  call.ret = FinalCost(leaf, modifiedBase)

\* an enhancement and a limitation in the base bucket that differ from the
\* level bucket, so that the two parts are modified separately
Wit_C5_SeparateParts ==
    /\ Returned /\ useMult /\ leaf.CanLevel
    /\ BaseEnhOf(leaf) > 0 /\ BaseLimOf(leaf) < 0 /\ BaseLimOf(leaf) # LevelLimOf(leaf)

LimitBelowFloor(l) == BaseLimOf(l) < FP(-80) \/ LevelLimOf(l) < FP(-80)

\* C6 as stated: a limitation total below -80 is clamped to -80 before it is
\* applied, under either policy and whatever the enhancements are.
Cex_C6_LimitationClampedFirst ==
    (Returned /\ LimitBelowFloor(leaf)) =>
        LET bp == BasePointsOf(leaf)
            lp == LeveledPointsOf(leaf)
            baseLim == AtLeastMinus80(BaseLimOf(leaf))
            levelLim == AtLeastMinus80(LevelLimOf(leaf))
            multiplicative ==
                IF BaseEnhOf(leaf) = LevelEnhOf(leaf) /\ BaseLimOf(leaf) = LevelLimOf(leaf)
                THEN Increase(Increase(bp + lp, BaseEnhOf(leaf)), baseLim)
                ELSE Increase(Increase(bp, BaseEnhOf(leaf)), baseLim)
                     + Increase(Increase(lp, LevelEnhOf(leaf)), levelLim)
            additive ==
                IF BaseEnhOf(leaf) + baseLim = LevelEnhOf(leaf) + levelLim
                THEN Increase(bp + lp, BaseEnhOf(leaf) + baseLim)
                ELSE Increase(bp, BaseEnhOf(leaf) + baseLim)
                     + Increase(lp, LevelEnhOf(leaf) + levelLim)
        IN  call.ret = FinalCost(leaf, IF useMult THEN multiplicative ELSE additive)

\* C6 as amended: with a limitation total below -80 in a bucket, the
\* multiplicative policy applies exactly -80 as that bucket's limitation for
\* every set of enhancements; the additive policy floors the sum of the
\* bucket's enhancement and limitation at -80, so the bucket's percentage is
\* exactly -80 when it holds no enhancement and max(-80, enhancement +
\* limitation) otherwise.
Thm_C6_LimitationFloor ==
    (Returned /\ LimitBelowFloor(leaf)) =>
        LET bp == BasePointsOf(leaf)
            lp == LeveledPointsOf(leaf)
            Lim(x) == IF x < FP(-80) THEN FP(-80) ELSE x
            Net(enh, lim) ==
                IF lim < FP(-80) /\ enh = 0 THEN FP(-80)
                ELSE IF enh + lim < FP(-80) THEN FP(-80) ELSE enh + lim
            baseMod == Net(BaseEnhOf(leaf), BaseLimOf(leaf))
            levelMod == Net(LevelEnhOf(leaf), LevelLimOf(leaf))
            multiplicative ==
                IF BaseEnhOf(leaf) = LevelEnhOf(leaf) /\ BaseLimOf(leaf) = LevelLimOf(leaf)
                THEN Increase(Increase(bp + lp, BaseEnhOf(leaf)), Lim(BaseLimOf(leaf)))
                ELSE Increase(Increase(bp, BaseEnhOf(leaf)), Lim(BaseLimOf(leaf)))
                     + Increase(Increase(lp, LevelEnhOf(leaf)), Lim(LevelLimOf(leaf)))
            additive ==
                IF baseMod = levelMod
                THEN Increase(bp + lp, baseMod)
                ELSE Increase(bp, baseMod) + Increase(lp, levelMod)
        IN  call.ret = FinalCost(leaf, IF useMult THEN multiplicative ELSE additive)

\* two limitations that sum to -100 in both buckets and no enhancement: the
\* cost is that of a -80% limitation
Wit_C6_TwoLimitations ==
    /\ Returned /\ leaf.Modifiers = <<Lim50, Lim50>> /\ leaf.CR = NoCR
    /\ leaf.BasePoints = FP(10) /\ ~leaf.CanLevel
    /\ call.ret = FP(2)

\* the visible modifiers that are not points modifiers on the levels
RECURSIVE WithoutLevelPoints(_)
WithoutLevelPoints(ms) ==
    IF ms = <<>> THEN <<>>
    ELSE (IF Head(ms).CostType = Points /\ Head(ms).Affects = LevelsOnly
          THEN <<>> ELSE <<Head(ms)>>) \o WithoutLevelPoints(Tail(ms))

\* C7: when canLevel is false the cost is the cost with levels = 0 and
\* pointsPerLevel = 0; the stored levels, the stored pointsPerLevel and the
\* points modifiers that affect the levels only have no influence on it.
Thm_C7_CannotLevel ==
    (Returned /\ ~leaf.CanLevel) =>
        /\ call.ret = LeafCost([leaf EXCEPT !.Levels = 0, !.PointsPerLevel = 0], useMult)
        /\ call.ret = LeafCost([leaf EXCEPT !.Levels = 0, !.PointsPerLevel = 0,
                                            !.Modifiers = WithoutLevelPoints(Visible(leaf))], useMult)
        /\ call.ret = LeafCost([leaf EXCEPT !.CanLevel = TRUE, !.Levels = 0, !.PointsPerLevel = 0,
                                            !.Modifiers = WithoutLevelPoints(Visible(leaf))], useMult)

Wit_C7_StoredLevels ==
    /\ Returned /\ ~leaf.CanLevel /\ leaf.Levels > 0 /\ leaf.PointsPerLevel > 0
    /\ \E i \in 1..Len(leaf.Modifiers) : leaf.Modifiers[i] = Pts3Levels

Perms(n) == {p \in [1..n -> 1..n] : \A i, j \in 1..n : p[i] = p[j] => i = j}

Permuted(ms, p) == [i \in 1..Len(ms) |-> ms[p[i]]]

RECURSIVE MultipliersIn(_)
MultipliersIn(ms) ==
    IF ms = <<>> THEN <<>>
    ELSE (IF Head(ms).CostType = Multiplier THEN <<Head(ms)>> ELSE <<>>)
         \o MultipliersIn(Tail(ms))

\* C8 as stated: every permutation of the modifier list gives the same cost.
Cex_C8_AnyOrder ==
    Returned =>
        \A p \in Perms(Len(leaf.Modifiers)) :
            LeafCost([leaf EXCEPT !.Modifiers = Permuted(@, p)], useMult) = call.ret

\* C8 as amended: every permutation of the modifier list that keeps the
\* multiplier-type modifiers in the same relative order gives the same cost
\* (the running multiplier is a chain of fixed-point products, each cut to
\* four decimals, so exchanging two multipliers can change the last digit).
Thm_C8_OrderOfNonMultipliers ==
    Returned =>
        \A p \in Perms(Len(leaf.Modifiers)) :
            MultipliersIn(Traverse(Permuted(leaf.Modifiers, p))) = MultipliersIn(Visible(leaf))
                => LeafCost([leaf EXCEPT !.Modifiers = Permuted(@, p)], useMult) = call.ret

\* a multiplier and a limitation in one list, costed
Wit_C8_MixedList ==
    /\ Returned /\ Len(leaf.Modifiers) = 2
    /\ leaf.Modifiers[1] = Mul16 /\ leaf.Modifiers[2] = Lim50

RECURSIVE AsPercentage(_)
AsPercentage(ms) ==
    IF ms = <<>> THEN <<>>
    ELSE <<[Head(ms) EXCEPT !.CostType = IF @ \in {Percentage, Points, Multiplier}
                                           THEN @ ELSE Percentage,
                            !.Children = AsPercentage(@)]>>
         \o AsPercentage(Tail(ms))

\* C9: a modifier of unrecognized cost type is described by its signed cost
\* followed by "%", and counts in AdjustedPoints as a percentage modifier of
\* the same cost and affects scope.
Cex_C9_UnknownCostType ==
    /\ (call.op = "CostDescription"
          /\ leaf.Modifiers[call.index].CostType \notin {Percentage, Points, Multiplier}
          /\ ~leaf.Modifiers[call.index].Container)
        => SubSeq(call.ret, 1, 4)
             = FxpStringWithSign(leaf.Modifiers[call.index].Cost) \o <<"%">>
    /\ Returned => call.ret = LeafCost([leaf EXCEPT !.Modifiers = AsPercentage(@)], useMult)

(***************************************************************************)
(* Spec: one top-level trait and the tree below it.  traits is the arena   *)
(* of nodes in creation order; a node is named by its index, parent 0 is   *)
(* the nil parent.                                                         *)
(***************************************************************************)
NoParent == 0

\* NewTrait: the zero TraitData with the parent link and the kind set
NewTraitData(parent, container) ==
    [parent |-> parent, Container |-> container, Children |-> <<>>,
     Disabled |-> FALSE, ContainerType |-> Group, Modifiers |-> <<>>,
     BasePoints |-> 0, Levels |-> 0, PointsPerLevel |-> 0, CanLevel |-> FALSE,
     RoundCostDown |-> FALSE, CR |-> NoCR]

\* what the detail editor hands to ApplyTo for a leaf: the non-container fields
LeafEdits ==
    { [BasePoints |-> FP(5), Levels |-> 0, PointsPerLevel |-> 0, CanLevel |-> FALSE, CR |-> NoCR],
      [BasePoints |-> FP(-5), Levels |-> 0, PointsPerLevel |-> 0, CanLevel |-> FALSE, CR |-> CR6],
      [BasePoints |-> 0, Levels |-> FP(2), PointsPerLevel |-> FP(5), CanLevel |-> TRUE, CR |-> NoCR] }

ContainerTypes == {Group, AlternativeAbilities}

TreeModPool == {Lim50}

RECURSIVE CountModifiers(_, _)
CountModifiers(ts, n) ==
    IF n = 0 THEN 0 ELSE Len(ts[n].Modifiers) + CountModifiers(ts, n - 1)

Nodes(ts) == 1..Len(ts)

\* Trait.EffectivelyDisabled
EffectivelyDisabledOwnOnly(ts, n) == ts[n].Disabled

RECURSIVE EffectivelyDisabled(_, _)
EffectivelyDisabled(ts, n) ==
    IF ts[n].Disabled THEN TRUE
    ELSE IF ts[n].parent = NoParent THEN FALSE
    ELSE EffectivelyDisabled(ts, ts[n].parent)

\* Trait.Enabled
RECURSIVE Enabled(_, _)
Enabled(ts, n) ==
    IF ts[n].Disabled THEN FALSE
    ELSE IF ts[n].parent = NoParent THEN TRUE
    ELSE Enabled(ts, ts[n].parent)

\* Trait.Depth
RECURSIVE Depth(_, _)
Depth(ts, n) == IF ts[n].parent = NoParent THEN 0 ELSE 1 + Depth(ts, ts[n].parent)

\* Trait.AllModifiers
RECURSIVE AllModifiers(_, _)
AllModifiers(ts, n) ==
    ts[n].Modifiers \o (IF ts[n].parent = NoParent THEN <<>> ELSE AllModifiers(ts, ts[n].parent))

\* lines 826-831: the largest child value, the running maximum starting at 0
RECURSIVE LargestValue(_, _)
LargestValue(points, values) ==
    IF values = <<>> THEN points
    ELSE LargestValue(IF Head(values) > points THEN Head(values) ELSE points, Tail(values))

\* lines 832-840: 20% of every value but the first that equals the maximum
RECURSIVE Surcharges(_, _, _, _)
Surcharges(values, maximum, found, roundCostDown) ==
    IF values = <<>> THEN 0
    ELSE IF ~found /\ maximum = Head(values)
         THEN Surcharges(Tail(values), maximum, TRUE, roundCostDown)
         ELSE ApplyRounding(calculateModifierPoints(Head(values), Twenty), roundCostDown)
              + Surcharges(Tail(values), maximum, found, roundCostDown)

RECURSIVE SumValues(_)
SumValues(values) == IF values = <<>> THEN 0 ELSE Head(values) + SumValues(Tail(values))

\* Trait.AdjustedPoints
RECURSIVE TraitAdjustedPoints(_, _, _)
TraitAdjustedPoints(ts, multiplicative, n) ==
    IF EffectivelyDisabled(ts, n) THEN 0
    ELSE IF ~ts[n].Container
    THEN AdjustedPoints(multiplicative, ts[n].CanLevel, ts[n].BasePoints, ts[n].Levels,
                        ts[n].PointsPerLevel, ts[n].CR, AllModifiers(ts, n),
                        ts[n].RoundCostDown)
    ELSE LET values == [i \in 1..Len(ts[n].Children) |->
                            TraitAdjustedPoints(ts, multiplicative, ts[n].Children[i])]
         IN  IF ts[n].ContainerType = AlternativeAbilities
             THEN LET maximum == LargestValue(0, values)
                  IN  maximum + Surcharges(values, maximum, FALSE, ts[n].RoundCostDown)
             ELSE SumValues(values)

Init ==
    /\ theme = NoTheme
    /\ traits = <<>>
    /\ useMult = FALSE
    /\ leaf = NoLeaf
    /\ call = NoCall
    /\ load = NoCall
    /\ file = NoCall
    /\ heap = <<>>
    /\ names = NoCall

\* the arena after NewTrait(entity, parent, container), the new node being
\* added to the children of its parent
WithNewTrait(ts, parent, container) ==
    LET id == Len(ts) + 1
        added == Append(ts, NewTraitData(parent, container))
    IN  IF parent = NoParent THEN added
        ELSE [added EXCEPT ![parent].Children = Append(@, id)]

NewTrait(parent, container) ==
    /\ Len(traits) < MaxNodes
    /\ IF traits = <<>> THEN parent = NoParent
       ELSE parent \in Nodes(traits) /\ traits[parent].Container
    /\ traits' = WithNewTrait(traits, parent, container)
    /\ UNCHANGED <<useMult, leaf, call, load, file, heap, names, theme>>

\* the fields of a leaf edited and applied (Trait.ApplyTo)
ApplyToLeaf(n, data) ==
    /\ n \in Nodes(traits) /\ ~traits[n].Container
    /\ traits' = [traits EXCEPT ![n].BasePoints = data.BasePoints,
                                ![n].Levels = data.Levels,
                                ![n].PointsPerLevel = data.PointsPerLevel,
                                ![n].CanLevel = data.CanLevel,
                                ![n].CR = data.CR]
    /\ UNCHANGED <<useMult, leaf, call, load, file, heap, names, theme>>

\* the container type of a container edited and applied (Trait.ApplyTo)
ApplyToContainer(n, containerType) ==
    /\ n \in Nodes(traits) /\ traits[n].Container
    /\ traits' = [traits EXCEPT ![n].ContainerType = containerType]
    /\ UNCHANGED <<useMult, leaf, call, load, file, heap, names, theme>>

\* the Disabled flag of a leaf or container edited and applied (Trait.ApplyTo)
ApplyDisabled(n, disabled) ==
    /\ n \in Nodes(traits)
    /\ traits' = [traits EXCEPT ![n].Disabled = disabled]
    /\ UNCHANGED <<useMult, leaf, call, load, file, heap, names, theme>>

\* a modifier added to the Modifiers of a leaf or container (Trait.ApplyTo)
ApplyModifiers(n, m) ==
    /\ n \in Nodes(traits)
    /\ CountModifiers(traits, Len(traits)) < MaxTreeMods
    /\ traits' = [traits EXCEPT ![n].Modifiers = Append(@, m)]
    /\ UNCHANGED <<useMult, leaf, call, load, file, heap, names, theme>>

Next ==
    \/ \E parent \in 0..MaxNodes, container \in BOOLEAN : NewTrait(parent, container)
    \/ \E n \in 1..MaxNodes, data \in LeafEdits : ApplyToLeaf(n, data)
    \/ \E n \in 1..MaxNodes, containerType \in ContainerTypes : ApplyToContainer(n, containerType)
    \/ \E n \in 1..MaxNodes, disabled \in BOOLEAN : ApplyDisabled(n, disabled)
    \/ \E n \in 1..MaxNodes, m \in TreeModPool : ApplyModifiers(n, m)

Spec == Init /\ [][Next]_vars

(***************************************************************************)
(* SpecAlt: a top-level alternative-abilities container and the leaves     *)
(* added to it.                                                            *)
(***************************************************************************)
InitAlt ==
    /\ theme = NoTheme
    /\ traits = <<[NewTraitData(NoParent, TRUE) EXCEPT !.ContainerType = AlternativeAbilities]>>
    /\ useMult = FALSE
    /\ leaf = NoLeaf
    /\ call = NoCall
    /\ load = NoCall
    /\ file = NoCall
    /\ heap = <<>>
    /\ names = NoCall

\* NewTrait(entity, root, false)
NewAlternative ==
    /\ Len(traits) < 1 + MaxAlternatives
    /\ traits' = WithNewTrait(traits, 1, FALSE)
    /\ UNCHANGED <<useMult, leaf, call, load, file, heap, names, theme>>

NextAlt ==
    \/ NewAlternative
    \/ \E n \in 2..(1 + MaxAlternatives), data \in LeafEdits : ApplyToLeaf(n, data)
    \/ \E containerType \in ContainerTypes : ApplyToContainer(1, containerType)
    \/ \E n \in 1..(1 + MaxAlternatives), disabled \in BOOLEAN : ApplyDisabled(n, disabled)

SpecAlt == InitAlt /\ [][NextAlt]_vars

(***************************************************************************)
(* Claims about the trait tree.                                            *)
(***************************************************************************)
\* the node itself and every node reached from it over parent links
SelfAndAncestors(ts, n) ==
    LET Up[k \in 0..Len(ts)] ==
            IF k = 0 THEN {n}
            ELSE Up[k - 1] \cup ({ts[x].parent : x \in Up[k - 1]} \ {NoParent})
    IN  Up[Len(ts)]

Cost(n) == TraitAdjustedPoints(traits, useMult, n)

\* C1: a node that is disabled, or has a disabled ancestor, is effectively
\* disabled, is not enabled and has adjusted points 0, whatever its own cost
\* fields, modifiers and container type are.
Thm_C1_DisabledAncestor ==
    \A n \in Nodes(traits) :
        (\E a \in SelfAndAncestors(traits, n) : traits[a].Disabled) =>
            /\ EffectivelyDisabled(traits, n)
            /\ ~Enabled(traits, n)
            /\ Cost(n) = 0

\* a leaf with points of its own, not disabled itself, below an enabled
\* container whose parent is disabled
Wit_C1_DisabledGrandparent ==
    \E n \in Nodes(traits) :
        /\ Depth(traits, n) = 2 /\ ~traits[n].Container /\ ~traits[n].Disabled
        /\ traits[n].CanLevel /\ traits[n].Levels > 0
        /\ ~traits[traits[n].parent].Disabled
        /\ traits[traits[traits[n].parent].parent].Disabled
        /\ Cost(n) = 0

ChildValues(n) == [i \in 1..Len(traits[n].Children) |-> Cost(traits[n].Children[i])]

Alternatives(n) ==
    /\ traits[n].Container /\ traits[n].ContainerType = AlternativeAbilities
    /\ ~EffectivelyDisabled(traits, n)
    /\ traits[n].Children # <<>>

MaxOf(values) == CHOOSE v \in {values[i] : i \in DOMAIN values} :
                    \A i \in DOMAIN values : values[i] <= v

\* 20% of a value, rounded as the container rounds
Surcharge(n, v) == ApplyRounding(Div(Mul(v, FP(20)), FP(100)), traits[n].RoundCostDown)

SurchargeSum(n, values, indices) ==
    SumLast([i \in 1..Len(values) |-> IF i \in indices THEN Surcharge(n, values[i]) ELSE 0],
            Len(values))

\* C2: an alternative-abilities container that is not effectively disabled
\* costs the largest of its children's adjusted points plus 20% (rounded) of
\* every child other than one child that attains the largest value, for
\* positive, zero and negative child values alike.
Cex_C2_LargestPlusFifths ==
    \A n \in Nodes(traits) :
        Alternatives(n) =>
            \E best \in DOMAIN ChildValues(n) :
                /\ ChildValues(n)[best] = MaxOf(ChildValues(n))
                /\ Cost(n) = MaxOf(ChildValues(n))
                             + SurchargeSum(n, ChildValues(n), DOMAIN ChildValues(n) \ {best})

\* C3: when several children tie at the largest value, exactly one of them is
\* exempt from the surcharge and every other child pays it; children worth
\* 10, 10 and 5 cost 10 + 2 + 1 = 13.
Cex_C3_TiedLargest ==
    \A n \in Nodes(traits) :
        Alternatives(n) =>
            LET values == ChildValues(n)
                tied == {i \in DOMAIN values : values[i] = MaxOf(values)}
            IN  /\ Cardinality(tied) > 1 =>
                       /\ Cost(n) = MaxOf(values)
                                    + SurchargeSum(n, values, DOMAIN values)
                                    - Surcharge(n, MaxOf(values))
                       /\ Cardinality({exempt \in tied :
                              Cost(n) = MaxOf(values)
                                        + SurchargeSum(n, values, DOMAIN values \ {exempt})}) >= 1
                /\ (Len(values) = 3 /\ {values[i] : i \in DOMAIN values} = {FP(10), FP(5)}
                      /\ Cardinality({i \in DOMAIN values : values[i] = FP(10)}) = 2)
                     => Cost(n) = FP(13)

\* the worked example as a state: alternatives worth 10, 10 and 5 cost 13
Example_C3_TenTenFive ==
    \E n \in Nodes(traits) :
        /\ Alternatives(n) /\ Len(ChildValues(n)) = 3
        /\ {ChildValues(n)[i] : i \in 1..3} = {FP(10), FP(5)}
        /\ Cardinality({i \in 1..3 : ChildValues(n)[i] = FP(10)}) = 2
        /\ Cost(n) = FP(13)

(***************************************************************************)
(* SpecLoad: the list loaders.  A document is what jio.LoadFromFS finds:   *)
(* whether it decodes at all, and the type, version and rows it carries.   *)
(***************************************************************************)
traitListTypeKey == "trait_list"
traitModifierListTypeKey == "modifier_list"
noteListTypeKey == "note_list"

\* the data version constants read by CheckVersion
MinimumDataVersion == 2
CurrentDataVersion == 5

TypeStrings == {traitListTypeKey, "advantage_list", traitModifierListTypeKey,
                noteListTypeKey, "spell_list"}

RowLists == UNION {[1..k -> {"row"}] : k \in 0..MaxRows}

Documents == [decodes : BOOLEAN, type : TypeStrings, version : 0..MaxVersion, rows : RowLists]

NoError == "nil"
InvalidFileData == "InvalidFileData"
UnexpectedFileData == "UnexpectedFileData"
UnsupportedVersion == "UnsupportedVersion"

\* CheckVersion
CheckVersion(version) ==
    IF version < MinimumDataVersion \/ version > CurrentDataVersion
    THEN UnsupportedVersion ELSE NoError

\* NewTraitsFromFile
NewTraitsFromFileNoAlias(doc) ==
    IF ~doc.decodes THEN [rows |-> <<>>, err |-> InvalidFileData]
    ELSE IF doc.type # traitListTypeKey THEN [rows |-> <<>>, err |-> UnexpectedFileData]
    ELSE IF CheckVersion(doc.version) # NoError
         THEN [rows |-> <<>>, err |-> CheckVersion(doc.version)]
    ELSE [rows |-> doc.rows, err |-> NoError]

NewTraitsFromFile(doc) ==
    IF ~doc.decodes THEN [rows |-> <<>>, err |-> InvalidFileData]
    ELSE LET type == IF doc.type = "advantage_list" THEN traitListTypeKey ELSE doc.type
         IN  IF type # traitListTypeKey THEN [rows |-> <<>>, err |-> UnexpectedFileData]
             ELSE IF CheckVersion(doc.version) # NoError
                  THEN [rows |-> <<>>, err |-> CheckVersion(doc.version)]
             ELSE [rows |-> doc.rows, err |-> NoError]

\* NewTraitModifiersFromFile
NewTraitModifiersFromFile(doc) ==
    IF ~doc.decodes THEN [rows |-> <<>>, err |-> InvalidFileData]
    ELSE IF doc.type # traitModifierListTypeKey THEN [rows |-> <<>>, err |-> UnexpectedFileData]
    ELSE IF CheckVersion(doc.version) # NoError
         THEN [rows |-> <<>>, err |-> CheckVersion(doc.version)]
    ELSE [rows |-> doc.rows, err |-> NoError]

\* NewNotesFromFile
NewNotesFromFile(doc) ==
    IF ~doc.decodes THEN [rows |-> <<>>, err |-> InvalidFileData]
    ELSE IF doc.type # noteListTypeKey THEN [rows |-> <<>>, err |-> UnexpectedFileData]
    ELSE IF CheckVersion(doc.version) # NoError
         THEN [rows |-> <<>>, err |-> CheckVersion(doc.version)]
    ELSE [rows |-> doc.rows, err |-> NoError]

InitLoad ==
    /\ theme = NoTheme
    /\ load = NoCall
    /\ traits = <<>>
    /\ useMult = FALSE
    /\ leaf = NoLeaf
    /\ call = NoCall
    /\ file = NoCall
    /\ heap = <<>>
    /\ names = NoCall

LoadTraits(doc) ==
    /\ load' = [op |-> "NewTraitsFromFile", doc |-> doc, ret |-> NewTraitsFromFile(doc)]
    /\ UNCHANGED <<traits, useMult, leaf, call, file, heap, names, theme>>

LoadTraitModifiers(doc) ==
    /\ load' = [op |-> "NewTraitModifiersFromFile", doc |-> doc,
                ret |-> NewTraitModifiersFromFile(doc)]
    /\ UNCHANGED <<traits, useMult, leaf, call, file, heap, names, theme>>

LoadNotes(doc) ==
    /\ load' = [op |-> "NewNotesFromFile", doc |-> doc, ret |-> NewNotesFromFile(doc)]
    /\ UNCHANGED <<traits, useMult, leaf, call, file, heap, names, theme>>

NextLoad ==
    \/ \E doc \in Documents : LoadTraits(doc)
    \/ \E doc \in Documents : LoadTraitModifiers(doc)
    \/ \E doc \in Documents : LoadNotes(doc)

SpecLoad == InitLoad /\ [][NextLoad]_vars

\* the types a loader takes as its own
AcceptedTypes(op) ==
    CASE op = "NewTraitsFromFile" -> {"trait_list", "advantage_list"}
      [] op = "NewTraitModifiersFromFile" -> {"modifier_list"}
      [] op = "NewNotesFromFile" -> {"note_list"}

\* C10: a loader returns the rows and no error exactly when the document
\* decodes, its type is the list's discriminator (for traits also the alias
\* "advantage_list") and its version is supported; otherwise it returns no
\* rows and one error: invalid data if the document does not decode, else
\* unexpected type if the type mismatches, else unsupported version.
Thm_C10_LoadErrors ==
    load.op # "none" =>
        LET doc == load.doc
            typeOk == doc.type \in AcceptedTypes(load.op)
            versionOk == doc.version >= MinimumDataVersion /\ doc.version <= CurrentDataVersion
        IN  IF doc.decodes /\ typeOk /\ versionOk
            THEN load.ret.err = NoError /\ load.ret.rows = doc.rows
            ELSE /\ load.ret.rows = <<>>
                 /\ load.ret.err = (IF ~doc.decodes THEN InvalidFileData
                                    ELSE IF ~typeOk THEN UnexpectedFileData
                                    ELSE UnsupportedVersion)

\* a legacy trait document of a supported version, loaded with its rows
Wit_C10_LegacyAlias ==
    /\ load.op = "NewTraitsFromFile" /\ load.doc.decodes
    /\ load.doc.type = "advantage_list" /\ load.doc.rows # <<>>
    /\ load.ret.err = NoError /\ load.ret.rows = load.doc.rows

(***************************************************************************)
(* Objects.  heap is the store of the objects created so far; an object is *)
(* named by its index (0 is nil).  Traits, trait modifiers and notes are   *)
(* nodes; a third-party data map is an object of its own, so that two      *)
(* nodes can hold the same map.                                            *)
(***************************************************************************)
Nil == 0

\* the kind bytes of the identifiers (package kinds)
KindTrait == "t"
KindTraitContainer == "T"
KindTraitModifier == "m"
KindTraitModifierContainer == "M"
KindNote == "n"
KindNoteContainer == "N"
KindEquipment == "e"
KindEquipmentContainer == "E"

\* serial numbers at and above MintBase are those of identifiers minted
\* while the program runs; a document holds smaller ones, and 0 stands for
\* text that is not a valid TID (a legacy UUID)
MintBase == 100

\* tid.MustNewTID(kind) for the object at address addr
MustNewTID(kind, addr) == [kind |-> kind, serial |-> MintBase + addr]

\* tid.IsValid
IsValid(id) == id.serial # 0

\* tid.IsKind
IsKind(id, kind) == id.kind = kind

\* tid.IsKindAndValid
IsKindAndValid(id, kind) == IsValid(id) /\ IsKind(id, kind)

\* Note.Container
NoteContainer(n) == IsKind(n.TID, KindNoteContainer)

\* ContainerBase.Container: the identifier is of the container kind the
\* node was given
ContainerBaseContainer(o) == IsKind(o.LocalID, o.containerKind)

\* Container() of a node of any class
Container(o) == IF o.class = "note" THEN NoteContainer(o) ELSE ContainerBaseContainer(o)

\* ContainerBase.HasChildren, Note.HasChildren
HasChildren(o) == Container(o) /\ Len(o.Children) > 0

\* ContainerBase.clearUnusedFields
clearUnusedFields(o) ==
    IF ~Container(o) THEN [o EXCEPT !.Children = <<>>, !.IsOpen = FALSE] ELSE o

\* newContainerBase(parent, itemKind, containerKind, isContainer)
newContainerBase(addr, parent, itemKind, containerKind, isContainer) ==
    [LocalID |-> MustNewTID(IF isContainer THEN containerKind ELSE itemKind, addr),
     itemKind |-> itemKind, containerKind |-> containerKind, parent |-> parent,
     Children |-> <<>>, IsOpen |-> isContainer, ThirdParty |-> Nil]

\* the owning entities
Entities == {"entity1", "entity2"}

\* tag and name texts, numbered in their lexical order
TagExotic == 1
TagMagic == 2
TagMental == 3
TagPhysical == 4

TagSocial == 5

TagSupernatural == 6

SortTags(tags) == SortSeq(tags, LAMBDA a, b : a < b)

InSeq(x, s) == \E i \in 1..Len(s) : s[i] = x

\* NewTrait(entity, parent, container) as the object at address addr
NewTraitObject(addr, entity, parent, container) ==
    LET base == newContainerBase(addr, parent, KindTrait, KindTraitContainer, container)
    IN  [class |-> "trait", LocalID |-> base.LocalID, itemKind |-> base.itemKind,
         containerKind |-> base.containerKind, parent |-> base.parent,
         Children |-> base.Children, IsOpen |-> base.IsOpen,
         ThirdParty |-> base.ThirdParty, Entity |-> entity,
         Name |-> IF container THEN "Trait Container" ELSE "Trait",
         Tags |-> <<>>, Modifiers |-> <<>>, CR |-> NoCR, Disabled |-> FALSE,
         BasePoints |-> 0, Levels |-> 0, PointsPerLevel |-> 0, Prereq |-> FALSE,
         Weapons |-> <<>>, Features |-> <<>>, Study |-> <<>>, RoundCostDown |-> FALSE,
         CanLevel |-> FALSE, Ancestry |-> "", TemplatePicker |-> container,
         ContainerType |-> Group]

\* NewTraitModifier(entity, parent, container) as the object at address addr
NewTraitModifierObject(addr, entity, parent, container) ==
    LET base == newContainerBase(addr, parent, KindTraitModifier,
                                 KindTraitModifierContainer, container)
    IN  [class |-> "modifier", LocalID |-> base.LocalID, itemKind |-> base.itemKind,
         containerKind |-> base.containerKind, parent |-> base.parent,
         Children |-> base.Children, IsOpen |-> base.IsOpen,
         ThirdParty |-> base.ThirdParty, Entity |-> entity,
         Name |-> IF container THEN "Trait Modifier Container" ELSE "Trait Modifier",
         Tags |-> <<>>, Cost |-> 0, Levels |-> 0, Affects |-> Total,
         CostType |-> Percentage, Disabled |-> FALSE, Features |-> <<>>]

\* noteKind
noteKind(container) == IF container THEN KindNoteContainer ELSE KindNote

\* NewNote(entity, parent, container) as the object at address addr
NewNoteObject(addr, entity, parent, container) ==
    [class |-> "note", TID |-> MustNewTID(noteKind(container), addr),
     Text |-> IF container THEN "Note Container" ELSE "Note",
     ThirdParty |-> Nil, Children |-> <<>>, IsOpen |-> container, parent |-> parent,
     Entity |-> entity]

\* Trait.ClearUnusedFieldsForType
TraitClearUnusedFieldsForType(o) ==
    LET t == clearUnusedFields(o)
    IN  IF Container(t)
        THEN [t EXCEPT !.BasePoints = 0, !.Levels = 0, !.PointsPerLevel = 0,
                       !.CanLevel = FALSE, !.Prereq = FALSE, !.Weapons = <<>>,
                       !.Features = <<>>, !.RoundCostDown = FALSE,
                       !.TemplatePicker = TRUE]
        ELSE [t EXCEPT !.ContainerType = Group, !.TemplatePicker = FALSE,
                       !.Ancestry = "",
                       !.Levels = IF t.CanLevel THEN @ ELSE 0,
                       !.PointsPerLevel = IF t.CanLevel THEN @ ELSE 0]

\* TraitModifier.ClearUnusedFieldsForType
ModifierClearUnusedFieldsForType(o) ==
    LET m == clearUnusedFields(o)
    IN  IF Container(m)
        THEN [m EXCEPT !.CostType = Percentage, !.Disabled = FALSE, !.Cost = 0,
                       !.Levels = 0, !.Affects = Total, !.Features = <<>>]
        ELSE m

\* Note.ClearUnusedFieldsForType
NoteClearUnusedFieldsForType(o) ==
    IF ~Container(o) THEN [o EXCEPT !.Children = <<>>, !.IsOpen = FALSE] ELSE o

(***************************************************************************)
(* Rows of a list document.  A row is the JSON object of one node with     *)
(* every key present: a key the encoder omits as empty holds its zero      *)
(* value.  type and the five flags are keys of old documents only; calc    *)
(* is the block of computed values.                                        *)
(***************************************************************************)
NoEntity == "none"

TID(kind, serial) == [kind |-> kind, serial |-> serial]

NoCalc == [points |-> 0]

\* the row of a leaf trait with nothing set
TraitRow(id) ==
    [id |-> id, type |-> "", name |-> "Trait", tags |-> <<>>, mental |-> FALSE,
     physical |-> FALSE, social |-> FALSE, exotic |-> FALSE, supernatural |-> FALSE,
     modifiers |-> <<>>, cr |-> NoCR, disabled |-> FALSE,
     base_points |-> 0, levels |-> 0, points_per_level |-> 0, prereqs |-> FALSE,
     weapons |-> <<>>, features |-> <<>>, study |-> <<>>, round_down |-> FALSE,
     can_level |-> FALSE, ancestry |-> "", template_picker |-> FALSE,
     container_type |-> Group, children |-> <<>>, open |-> FALSE, calc |-> NoCalc]

\* the row of a leaf trait modifier with nothing set
ModifierRow(id) ==
    [id |-> id, type |-> "", name |-> "Trait Modifier", tags |-> <<>>, cost |-> 0,
     levels |-> 0, affects |-> Total, cost_type |-> Percentage, disabled |-> FALSE,
     features |-> <<>>, children |-> <<>>, open |-> FALSE]

\* the row of a note with nothing set
NoteRow(id) ==
    [id |-> id, type |-> "", text |-> "Note", children |-> <<>>, open |-> FALSE,
     calc |-> NoCalc]

\* Trait.transferOldTypeFlagToTags without the test for the tag
transferOldTypeFlagAlways(tags, name, flag) ==
    IF flag THEN Append(tags, name) ELSE tags

\* Trait.transferOldTypeFlagToTags
transferOldTypeFlagToTags(tags, name, flag) ==
    IF flag /\ ~InSeq(name, tags) THEN Append(tags, name) ELSE tags

\* Trait.UnmarshalJSON up to line 666, for the object at address addr whose
\* children and modifiers the decoder has already built
TraitUnmarshalJSON(addr, row, children, modifiers) ==
    LET type == CASE row.type = "advantage" -> "trait"
                  [] row.type = "advantage_container" -> "trait_container"
                  [] OTHER -> row.type
        kept == IsKindAndValid(row.id, KindTraitContainer)
                    \/ IsKindAndValid(row.id, KindTrait)
        localData ==
            [class |-> "trait",
             LocalID |-> IF kept THEN row.id
                         ELSE IF type = "trait" THEN MustNewTID(KindTrait, addr)
                         ELSE MustNewTID(KindTraitContainer, addr),
             itemKind |-> KindEquipment, containerKind |-> KindEquipmentContainer,
             parent |-> Nil, Children |-> children, IsOpen |-> row.open,
             ThirdParty |-> Nil, Entity |-> NoEntity, Name |-> row.name,
             Tags |-> row.tags, Modifiers |-> modifiers, CR |-> row.cr,
             Disabled |-> row.disabled, BasePoints |-> row.base_points,
             Levels |-> row.levels, PointsPerLevel |-> row.points_per_level,
             Prereq |-> row.prereqs, Weapons |-> row.weapons,
             Features |-> row.features, Study |-> row.study,
             RoundCostDown |-> row.round_down, CanLevel |-> row.can_level,
             Ancestry |-> row.ancestry, TemplatePicker |-> row.template_picker,
             ContainerType |-> row.container_type]
        forced == [localData EXCEPT !.CanLevel =
                      IF ~Container(localData)
                           /\ (localData.Levels # 0 \/ localData.PointsPerLevel # 0)
                      THEN TRUE ELSE @]
        cleared == TraitClearUnusedFieldsForType(forced)
        mental == transferOldTypeFlagToTags(cleared.Tags, TagMental, row.mental)
        physical == transferOldTypeFlagToTags(mental, TagPhysical, row.physical)
        social == transferOldTypeFlagToTags(physical, TagSocial, row.social)
        exotic == transferOldTypeFlagToTags(social, TagExotic, row.exotic)
        tagged == transferOldTypeFlagToTags(exotic, TagSupernatural, row.supernatural)
    IN  IF ~kept /\ type \notin {"trait", "trait_container"}
        THEN [ok |-> FALSE, node |-> localData]
        ELSE [ok |-> TRUE, node |-> [cleared EXCEPT !.Tags = SortTags(tagged)]]

\* TraitModifier.UnmarshalJSON up to line 187
ModifierUnmarshalJSON(addr, row, children) ==
    LET kept == IsKindAndValid(row.id, KindTraitModifierContainer)
                    \/ IsKindAndValid(row.id, KindTraitModifier)
        localData ==
            [class |-> "modifier",
             LocalID |-> IF kept THEN row.id
                         ELSE IF row.type = "modifier"
                              THEN MustNewTID(KindTraitModifier, addr)
                         ELSE MustNewTID(KindTraitModifierContainer, addr),
             itemKind |-> KindTraitModifier,
             containerKind |-> KindTraitModifierContainer,
             parent |-> Nil, Children |-> children, IsOpen |-> row.open,
             ThirdParty |-> Nil, Entity |-> NoEntity, Name |-> row.name,
             Tags |-> row.tags, Cost |-> row.cost, Levels |-> row.levels,
             Affects |-> row.affects, CostType |-> row.cost_type,
             Disabled |-> row.disabled, Features |-> row.features]
        cleared == ModifierClearUnusedFieldsForType(localData)
    IN  IF ~kept /\ row.type \notin {"modifier", "modifier_container"}
        THEN [ok |-> FALSE, node |-> localData]
        ELSE [ok |-> TRUE, node |-> [cleared EXCEPT !.Tags = SortTags(@)]]

\* strings.HasSuffix(type, ContainerKeyPostfix)
IsContainerType(type) ==
    type \in {"note_container", "trait_container", "modifier_container",
              "advantage_container"}

\* Note.UnmarshalJSON taking the text from the resolved notes of calc
NoteUnmarshalFromCalc(addr, row, children) ==
    LET text == IF "resolved_notes" \in DOMAIN row.calc THEN row.calc.resolved_notes
                ELSE row.text
        localData ==
            [class |-> "note",
             TID |-> IF IsValid(row.id) THEN row.id
                     ELSE MustNewTID(noteKind(IsContainerType(row.type)), addr),
             Text |-> text, ThirdParty |-> Nil, Children |-> children,
             IsOpen |-> row.open, parent |-> Nil, Entity |-> NoEntity]
    IN  [ok |-> TRUE, node |-> NoteClearUnusedFieldsForType(localData)]

\* Note.UnmarshalJSON up to line 213
NoteUnmarshalJSON(addr, row, children) ==
    LET localData ==
            [class |-> "note",
             TID |-> IF IsValid(row.id) THEN row.id
                     ELSE MustNewTID(noteKind(IsContainerType(row.type)), addr),
             Text |-> row.text, ThirdParty |-> Nil, Children |-> children,
             IsOpen |-> row.open, parent |-> Nil, Entity |-> NoEntity]
    IN  [ok |-> TRUE, node |-> NoteClearUnusedFieldsForType(localData)]

\* for _, one := range Children { one.parent = node }
SetParents(h, children, addr) ==
    [a \in 1..Len(h) |-> IF InSeq(a, children) THEN [h[a] EXCEPT !.parent = addr]
                         ELSE h[a]]

\* json.Unmarshal of a row, and of a list of rows, into new objects of the
\* class: the children and modifiers of a row are decoded by their own
\* UnmarshalJSON before the row's UnmarshalJSON goes on, and an error of any
\* of them is the error of the whole
RECURSIVE UnmarshalJSON(_, _, _), UnmarshalList(_, _, _)
\* the decoded node is stored; a container becomes the parent of its children
UnmarshalStored(kids, mods, one, addr, h) ==
    IF ~kids.ok \/ ~mods.ok \/ ~one.ok THEN [ok |-> FALSE, heap |-> h, addr |-> Nil]
    ELSE [ok |-> TRUE, addr |-> addr,
          heap |-> IF Container(one.node)
                   THEN SetParents(Append(mods.heap, one.node), one.node.Children, addr)
                   ELSE Append(mods.heap, one.node)]

\* the UnmarshalJSON of the row's class, its children and modifiers decoded
UnmarshalRow(kids, mods, addr, h, row, class) ==
    UnmarshalStored(kids, mods,
                    CASE class = "trait" ->
                             TraitUnmarshalJSON(addr, row, kids.addrs, mods.addrs)
                      [] class = "modifier" -> ModifierUnmarshalJSON(addr, row, kids.addrs)
                      [] class = "note" -> NoteUnmarshalJSON(addr, row, kids.addrs),
                    addr, h)

\* the modifiers of a trait row are decoded after its children
UnmarshalModifiers(kids, mods, h, row, class) ==
    UnmarshalRow(kids, mods, Len(mods.heap) + 1, h, row, class)

UnmarshalChildren(kids, h, row, class) ==
    UnmarshalModifiers(kids,
                       IF class = "trait"
                       THEN UnmarshalList(kids.heap, row.modifiers, "modifier")
                       ELSE [ok |-> TRUE, heap |-> kids.heap, addrs |-> <<>>],
                       h, row, class)

UnmarshalJSON(h, row, class) ==
    UnmarshalChildren(UnmarshalList(h, row.children, class), h, row, class)

\* the rows of a list, the first decoded and the others after it
UnmarshalJoined(first, rest, h) ==
    IF ~first.ok \/ ~rest.ok THEN [ok |-> FALSE, heap |-> h, addrs |-> <<>>]
    ELSE [ok |-> TRUE, heap |-> rest.heap, addrs |-> <<first.addr>> \o rest.addrs]

UnmarshalRest(first, h, rows, class) ==
    UnmarshalJoined(first, UnmarshalList(first.heap, Tail(rows), class), h)

UnmarshalList(h, rows, class) ==
    IF rows = <<>> THEN [ok |-> TRUE, heap |-> h, addrs |-> <<>>]
    ELSE UnmarshalRest(UnmarshalJSON(h, Head(rows), class), h, rows, class)

\* a trait modifier object and the modifiers below it as AdjustedPoints
\* reads them
RECURSIVE ModifierValue(_, _)
ModifierValue(h, a) ==
    [Container |-> Container(h[a]),
     Children |-> [i \in 1..Len(h[a].Children) |-> ModifierValue(h, h[a].Children[i])],
     CostType |-> h[a].CostType, Cost |-> h[a].Cost, Levels |-> h[a].Levels,
     Affects |-> h[a].Affects, Disabled |-> h[a].Disabled]

\* the trait objects of the store as the nodes Trait.AdjustedPoints walks
TraitNodes(h) ==
    [a \in 1..Len(h) |->
        IF h[a].class # "trait" THEN h[a]
        ELSE [parent |-> h[a].parent, Container |-> Container(h[a]),
              Children |-> h[a].Children, Disabled |-> h[a].Disabled,
              ContainerType |-> h[a].ContainerType,
              Modifiers |-> [i \in 1..Len(h[a].Modifiers) |->
                                ModifierValue(h, h[a].Modifiers[i])],
              BasePoints |-> h[a].BasePoints, Levels |-> h[a].Levels,
              PointsPerLevel |-> h[a].PointsPerLevel, CanLevel |-> h[a].CanLevel,
              RoundCostDown |-> h[a].RoundCostDown, CR |-> h[a].CR]]

\* t.AdjustedPoints() of the trait object at address a
ObjectAdjustedPoints(h, a) == TraitAdjustedPoints(TraitNodes(h), useMult, a)

\* ClearUnusedFieldsForType of the object's class
ClearUnusedFieldsForType(o) ==
    CASE o.class = "trait" -> TraitClearUnusedFieldsForType(o)
      [] o.class = "modifier" -> ModifierClearUnusedFieldsForType(o)
      [] o.class = "note" -> NoteClearUnusedFieldsForType(o)

\* the keys Trait.MarshalJSON writes for TraitData and calc
TraitMarshalJSON(h, a, children, modifiers) ==
    [id |-> h[a].LocalID, type |-> "", name |-> h[a].Name, tags |-> h[a].Tags,
     mental |-> FALSE, physical |-> FALSE, social |-> FALSE, exotic |-> FALSE,
     supernatural |-> FALSE, modifiers |-> modifiers, cr |-> h[a].CR,
     disabled |-> h[a].Disabled, base_points |-> h[a].BasePoints,
     levels |-> h[a].Levels, points_per_level |-> h[a].PointsPerLevel,
     prereqs |-> h[a].Prereq, weapons |-> h[a].Weapons, features |-> h[a].Features,
     study |-> h[a].Study, round_down |-> h[a].RoundCostDown,
     can_level |-> h[a].CanLevel, ancestry |-> h[a].Ancestry,
     template_picker |-> h[a].TemplatePicker, container_type |-> h[a].ContainerType,
     children |-> children, open |-> h[a].IsOpen,
     calc |-> [points |-> ObjectAdjustedPoints(h, a)]]

\* the keys TraitModifier.MarshalJSON writes
ModifierMarshalJSON(h, a, children) ==
    [id |-> h[a].LocalID, type |-> "", name |-> h[a].Name, tags |-> h[a].Tags,
     cost |-> h[a].Cost, levels |-> h[a].Levels, affects |-> h[a].Affects,
     cost_type |-> h[a].CostType, disabled |-> h[a].Disabled,
     features |-> h[a].Features, children |-> children, open |-> h[a].IsOpen]

\* the keys Note.MarshalJSON writes; the text of the model holds no embedded
\* expression, so no resolved text is written
NoteMarshalJSON(h, a, children) ==
    [id |-> h[a].TID, type |-> "", text |-> h[a].Text, children |-> children,
     open |-> h[a].IsOpen, calc |-> NoCalc]

\* MarshalJSON of the node at address a and of a list of nodes: the node's
\* unused fields are cleared in place, then its keys are written, the
\* children and modifiers by their own MarshalJSON
RECURSIVE MarshalJSON(_, _), MarshalList(_, _)
MarshalJSON(h, a) ==
    LET cleared == [h EXCEPT ![a] = ClearUnusedFieldsForType(@)]
        kids == MarshalList(cleared, cleared[a].Children)
        mods == IF cleared[a].class = "trait" THEN MarshalList(kids.heap, cleared[a].Modifiers)
                ELSE [heap |-> kids.heap, rows |-> <<>>]
    IN  [heap |-> mods.heap,
         row |-> CASE cleared[a].class = "trait" ->
                          TraitMarshalJSON(cleared, a, kids.rows, mods.rows)
                   [] cleared[a].class = "modifier" ->
                          ModifierMarshalJSON(cleared, a, kids.rows)
                   [] cleared[a].class = "note" ->
                          NoteMarshalJSON(cleared, a, kids.rows)]

MarshalList(h, addrs) ==
    IF addrs = <<>> THEN [heap |-> h, rows |-> <<>>]
    ELSE LET first == MarshalJSON(h, Head(addrs))
             rest == MarshalList(first.heap, Tail(addrs))
         IN  [heap |-> rest.heap, rows |-> <<first.row>> \o rest.rows]

(***************************************************************************)
(* SpecFile: a list document is loaded with New*FromFile and the loaded    *)
(* rows are saved again with Save*.                                        *)
(***************************************************************************)
MaxFileRows == 1

traitTypeKey == "trait"

\* leaf trait rows: current ones, rows of old documents (type and flag keys,
\* identifiers that are not TIDs) and rows with levels but no can_level
TraitLeafRows ==
    { [TraitRow(id) EXCEPT !.type = type, !.tags = tags, !.mental = mental,
                           !.base_points = FP(5), !.levels = levels,
                           !.points_per_level = levels] :
        id \in {TID(KindTrait, 1), TID(KindTrait, 0)},
        type \in {"", "advantage", "bogus"},
        tags \in {<<>>, <<TagMagic, TagExotic>>},
        mental \in BOOLEAN,
        levels \in {0, FP(2)} }

\* container trait rows holding a leaf or a container with a leaf
TraitContainerRows ==
    LET child == [TraitRow(TID(KindTrait, 2)) EXCEPT !.base_points = FP(5)]
        inner == [TraitRow(TID(KindTraitContainer, 3)) EXCEPT
                      !.children = <<child>>, !.template_picker = TRUE]
    IN  { [TraitRow(TID(KindTraitContainer, 4)) EXCEPT
               !.children = children, !.container_type = type, !.open = open,
               !.template_picker = TRUE, !.study = study] :
            children \in {<<child>>, <<inner>>},
            type \in ContainerTypes, open \in BOOLEAN,
            study \in {<<>>, <<"study">>} }

\* trait modifier rows: leaves and a container of a leaf
ModifierRows ==
    LET leaves == { [ModifierRow(id) EXCEPT !.type = type, !.tags = tags, !.cost = FP(10)] :
                      id \in {TID(KindTraitModifier, 1), TID(KindTraitModifier, 0)},
                      type \in {"", "modifier"},
                      tags \in {<<>>, <<TagMagic, TagExotic>>} }
    IN  leaves \cup
        { [ModifierRow(TID(KindTraitModifierContainer, 2)) EXCEPT
               !.children = <<child>>, !.open = open] :
            child \in {m \in leaves : IsValid(m.id) /\ m.type = ""}, open \in BOOLEAN }

\* note rows: leaves and a container of a leaf
NoteRows ==
    LET leaves == { [NoteRow(id) EXCEPT !.type = type, !.open = open] :
                      id \in {TID(KindNote, 1), TID(KindNote, 0)},
                      type \in {"", "note", "note_container"}, open \in BOOLEAN }
    IN  leaves \cup
        { [NoteRow(TID(KindNoteContainer, 2)) EXCEPT !.children = <<child>>, !.open = open] :
            child \in {n \in leaves : IsValid(n.id) /\ n.type = ""}, open \in BOOLEAN }

RowsOfClass(class) ==
    CASE class = "trait" -> TraitLeafRows \cup TraitContainerRows
      [] class = "modifier" -> ModifierRows
      [] class = "note" -> NoteRows

\* the type discriminator of the list of a class
ListTypeKey(class) ==
    CASE class = "trait" -> traitListTypeKey
      [] class = "modifier" -> traitModifierListTypeKey
      [] class = "note" -> noteListTypeKey

RowSeqs(rows) == UNION { [1..n -> rows] : n \in 1..MaxFileRows }

\* the documents a list of the class is loaded from
FileDocuments(class) ==
    [type : {ListTypeKey(class)} \cup (IF class = "trait" THEN {"advantage_list"} ELSE {}),
     version : {CurrentDataVersion - 1, CurrentDataVersion},
     rows : RowSeqs(RowsOfClass(class))]

NoFile == [type |-> "", version |-> 0, rows |-> <<>>]

InitFile ==
    /\ theme = NoTheme
    /\ \E class \in {"trait", "modifier", "note"} :
         \E doc \in FileDocuments(class) :
            file = [phase |-> "document", class |-> class, doc |-> doc, rows |-> <<>>,
                    err |-> NoError, saved |-> NoFile]
    /\ heap = <<>>
    /\ useMult = FALSE
    /\ traits = <<>>
    /\ leaf = NoLeaf
    /\ call = NoCall
    /\ load = NoCall
    /\ names = NoCall

\* jio.LoadFromFS into the list data, then the checks of New*FromFile
NewFromFile(doc, class) ==
    LET decoded == UnmarshalList(<<>>, doc.rows, class)
        type == IF class = "trait" /\ doc.type = "advantage_list" THEN traitListTypeKey
                ELSE doc.type
    IN  IF ~decoded.ok THEN [heap |-> <<>>, rows |-> <<>>, err |-> InvalidFileData]
        ELSE IF type # ListTypeKey(class)
        THEN [heap |-> <<>>, rows |-> <<>>, err |-> UnexpectedFileData]
        ELSE IF CheckVersion(doc.version) # NoError
        THEN [heap |-> <<>>, rows |-> <<>>, err |-> CheckVersion(doc.version)]
        ELSE [heap |-> decoded.heap, rows |-> decoded.addrs, err |-> NoError]

\* NewTraitsFromFile, NewTraitModifiersFromFile or NewNotesFromFile
LoadFile ==
    /\ file.phase = "document"
    /\ LET loaded == NewFromFile(file.doc, file.class)
       IN  /\ file' = [file EXCEPT !.phase = "loaded", !.rows = loaded.rows,
                                   !.err = loaded.err]
           /\ heap' = loaded.heap
    /\ UNCHANGED <<traits, useMult, leaf, call, load, names, theme>>

\* jio.SaveToFile of the list data of Save*
SaveToFile(h, rows, class) ==
    LET written == MarshalList(h, rows)
    IN  [heap |-> written.heap,
         doc |-> [type |-> ListTypeKey(class), version |-> CurrentDataVersion,
                  rows |-> written.rows]]

\* SaveTraits, SaveTraitModifiers or SaveNotes of the loaded rows
SaveFile ==
    /\ file.phase = "loaded" /\ file.err = NoError
    /\ LET saving == SaveToFile(heap, file.rows, file.class)
       IN  /\ file' = [file EXCEPT !.phase = "saved", !.saved = saving.doc]
           /\ heap' = saving.heap
    /\ UNCHANGED <<traits, useMult, leaf, call, load, names, theme>>

NextFile ==
    \/ LoadFile
    \/ SaveFile

SpecFile == InitFile /\ [][NextFile]_vars

\* a row and the rows below it without their calc blocks
RECURSIVE WithoutCalc(_)
WithoutCalc(row) ==
    LET below == [row EXCEPT !.children = [i \in 1..Len(row.children) |->
                                              WithoutCalc(row.children[i])]]
    IN  IF "calc" \in DOMAIN row THEN [below EXCEPT !.calc = NoCalc] ELSE below

RowsWithoutCalc(rows) == [i \in 1..Len(rows) |-> WithoutCalc(rows[i])]

\* the row is one of a current document of the class: its identifier is a
\* TID of the class, it has no key of the old formats and none of the fields
\* its container-ness rules out, and so for the rows below it
RECURSIVE CurrentRow(_, _)
CurrentRow(row, class) ==
    LET isContainer == row.id.kind \in {KindTraitContainer, KindTraitModifierContainer,
                                        KindNoteContainer}
    IN  /\ IsValid(row.id) /\ row.type = ""
        /\ \A i \in 1..Len(row.children) : CurrentRow(row.children[i], class)
        /\ ~isContainer => row.children = <<>> /\ ~row.open
        /\ class = "note" => row.id.kind \in {KindNote, KindNoteContainer}
        /\ class = "modifier" =>
             /\ row.id.kind \in {KindTraitModifier, KindTraitModifierContainer}
             /\ isContainer => row = [ModifierRow(row.id) EXCEPT
                                         !.name = row.name, !.tags = row.tags,
                                         !.children = row.children, !.open = row.open]
        /\ class = "trait" =>
             /\ row.id.kind \in {KindTrait, KindTraitContainer}
             /\ ~row.mental /\ ~row.physical /\ ~row.social /\ ~row.exotic
             /\ ~row.supernatural
             /\ \A i \in 1..Len(row.modifiers) : CurrentRow(row.modifiers[i], "modifier")
             /\ IF isContainer
                THEN /\ row.base_points = 0 /\ row.levels = 0 /\ row.points_per_level = 0
                     /\ ~row.can_level /\ ~row.round_down /\ ~row.prereqs
                     /\ row.weapons = <<>> /\ row.features = <<>> /\ row.study = <<>>
                     /\ row.template_picker
                ELSE /\ row.container_type = Group /\ row.ancestry = ""
                     /\ ~row.template_picker
                     /\ ~row.can_level => row.levels = 0 /\ row.points_per_level = 0

CurrentDocument(doc, class) ==
    /\ doc.type = ListTypeKey(class) /\ doc.version = CurrentDataVersion
    /\ \A i \in 1..Len(doc.rows) : CurrentRow(doc.rows[i], class)

\* C11: the document saved from the rows loaded from a current document
\* equals that document apart from the calc blocks: every authored field,
\* the container-only fields of containers and the nesting of parents and
\* children are kept, for trees with containers as well as leaves.
Cex_C11_RoundTrip ==
    (file.phase = "saved" /\ CurrentDocument(file.doc, file.class))
        => /\ file.saved.type = file.doc.type /\ file.saved.version = file.doc.version
           /\ RowsWithoutCalc(file.saved.rows) = RowsWithoutCalc(file.doc.rows)

(***************************************************************************)
(* SpecFields: one trait made by NewTrait, the detail editor applying its  *)
(* edited data to it, and ClearUnusedFieldsForType as load and save run it. *)
(***************************************************************************)
\* what the detail editor holds in its TraitEditData: any field may be set
TraitEdits ==
    [BasePoints : {0, FP(5)}, Levels : {0, FP(2)}, CanLevel : BOOLEAN,
     RoundCostDown : BOOLEAN, Weapons : {<<>>, <<"weapon">>},
     Study : {<<>>, <<"study">>}, ContainerType : ContainerTypes,
     Ancestry : {"", "Human"}]

InitFields ==
    /\ theme = NoTheme
    /\ \E container \in BOOLEAN :
         heap = <<NewTraitObject(1, NoEntity, Nil, container)>>
    /\ call = NoCall
    /\ file = NoCall
    /\ useMult = FALSE
    /\ traits = <<>>
    /\ leaf = NoLeaf
    /\ load = NoCall
    /\ names = NoCall

\* the edited fields as Trait.ApplyTo leaves them in the trait
WithEdit(t, edit) ==
    [t EXCEPT !.BasePoints = edit.BasePoints, !.Levels = edit.Levels,
              !.PointsPerLevel = edit.Levels, !.CanLevel = edit.CanLevel,
              !.RoundCostDown = edit.RoundCostDown, !.Weapons = edit.Weapons,
              !.Features = edit.Weapons, !.Prereq = edit.Weapons # <<>>,
              !.Study = edit.Study, !.ContainerType = edit.ContainerType,
              !.Ancestry = edit.Ancestry, !.TemplatePicker = edit.Ancestry # ""]

\* Trait.ApplyTo of the editor's data
ApplyTo(edit) ==
    /\ heap' = [heap EXCEPT ![1] = WithEdit(@, edit)]
    /\ call' = [op |-> "ApplyTo"]
    /\ UNCHANGED <<traits, useMult, leaf, load, file, names, theme>>

\* t.ClearUnusedFieldsForType()
CallClearUnusedFieldsForType ==
    /\ heap' = [heap EXCEPT ![1] = TraitClearUnusedFieldsForType(@)]
    /\ call' = [op |-> "ClearUnusedFieldsForType"]
    /\ UNCHANGED <<traits, useMult, leaf, load, file, names, theme>>

NextFields ==
    \/ \E edit \in TraitEdits : ApplyTo(edit)
    \/ CallClearUnusedFieldsForType

SpecFields == InitFields /\ [][NextFields]_vars

\* C12: after ClearUnusedFieldsForType a container trait has base points,
\* levels, points per level, canLevel, roundCostDown, prerequisites, weapons,
\* features and study entries zero or empty, and a leaf trait has container
\* type, ancestry name and template picker zero or empty.
Cex_C12_UnusedFieldsCleared ==
    call.op = "ClearUnusedFieldsForType" =>
        LET t == heap[1]
        IN  IF Container(t)
            THEN /\ t.BasePoints = 0 /\ t.Levels = 0 /\ t.PointsPerLevel = 0
                 /\ ~t.CanLevel /\ ~t.RoundCostDown /\ ~t.Prereq
                 /\ t.Weapons = <<>> /\ t.Features = <<>> /\ t.Study = <<>>
            ELSE t.ContainerType = Group /\ t.Ancestry = "" /\ ~t.TemplatePicker

(***************************************************************************)
(* Clone of a node of any class.  The clone and the clones of the nodes    *)
(* below it are new objects appended to the store; limit is the number of  *)
(* objects the store can hold.                                             *)
(***************************************************************************)
\* Note.Clone up to line 169: the new note with the copied fields
NoteCloneNode(n, addr, entity, parent, preserveID) ==
    LET other == NewNoteObject(addr, entity, parent, Container(n))
    IN  [other EXCEPT !.TID = IF preserveID THEN n.TID ELSE @,
                      !.IsOpen = n.IsOpen, !.ThirdParty = n.ThirdParty,
                      !.Text = n.Text]

\* TraitModifier.copyFrom into the modifier m: the whole TraitModifierData
\* of other is assigned, the container base (identifier, kinds, parent,
\* children, open flag, third-party map) with it
ModifierCopyFrom(m, other) ==
    [other EXCEPT !.Entity = m.Entity]

\* TraitModifier.Clone up to line 145
ModifierCloneNode(m, addr, entity, parent, preserveID) ==
    LET other == NewTraitModifierObject(addr, entity, parent, Container(m))
        copied == ModifierCopyFrom(other, m)
        fresh == [copied EXCEPT !.LocalID = MustNewTID(copied.LocalID.kind, addr)]
    IN  IF preserveID THEN [fresh EXCEPT !.LocalID = m.LocalID] ELSE fresh

RECURSIVE Clone(_, _, _, _, _, _), CloneList(_, _, _, _, _, _)

\* Trait.Clone up to line 580 on the store: NewTrait, then CopyFrom, whose
\* copyFrom assigns the whole TraitData of the source and clones the
\* source's modifiers for the source's entity with their identifiers kept.
\* Weapons, features, study entries and the template picker are values of
\* the model and are copied with the record.
TraitCloneNodeWithoutModifiers(h, a, entity, parent, preserveID, limit) ==
    LET t == h[a]
        addr == Len(h) + 1
        other == NewTraitObject(addr, entity, parent, Container(t))
        copied == [t EXCEPT !.Entity = other.Entity, !.Modifiers = <<>>,
                            !.LocalID = IF preserveID THEN t.LocalID
                                        ELSE MustNewTID(t.LocalID.kind, addr)]
    IN  [ok |-> TRUE, heap |-> Append(h, copied)]

TraitCloneNode(h, a, entity, parent, preserveID, limit) ==
    LET t == h[a]
        addr == Len(h) + 1
        other == NewTraitObject(addr, entity, parent, Container(t))
        mods == CloneList(Append(h, other), t.Modifiers, t.Entity, Nil, TRUE, limit)
        copied == [t EXCEPT !.Entity = other.Entity, !.Modifiers = mods.addrs,
                            !.LocalID = IF preserveID THEN t.LocalID
                                        ELSE MustNewTID(t.LocalID.kind, addr)]
    IN  [ok |-> mods.ok, heap |-> IF mods.ok THEN [mods.heap EXCEPT ![addr] = copied] ELSE h]

\* Clone(entity, parent, preserveID) of the node at address a
Clone(h, a, entity, parent, preserveID, limit) ==
    IF Len(h) >= limit THEN [ok |-> FALSE, heap |-> h, addr |-> Nil]
    ELSE LET addr == Len(h) + 1
             made == CASE h[a].class = "note" ->
                            [ok |-> TRUE,
                             heap |-> Append(h, NoteCloneNode(h[a], addr, entity, parent,
                                                              preserveID))]
                       [] h[a].class = "modifier" ->
                            [ok |-> TRUE,
                             heap |-> Append(h, ModifierCloneNode(h[a], addr, entity, parent,
                                                                  preserveID))]
                       [] h[a].class = "trait" ->
                            TraitCloneNode(h, a, entity, parent, preserveID, limit)
             kids == CloneList(made.heap, h[a].Children, entity, addr, preserveID, limit)
         IN  IF ~made.ok THEN [ok |-> FALSE, heap |-> h, addr |-> Nil]
             ELSE IF ~HasChildren(h[a]) THEN [ok |-> TRUE, heap |-> made.heap, addr |-> addr]
             ELSE IF ~kids.ok THEN [ok |-> FALSE, heap |-> h, addr |-> Nil]
             ELSE [ok |-> TRUE, addr |-> addr,
                   heap |-> [kids.heap EXCEPT ![addr].Children = kids.addrs]]

CloneList(h, addrs, entity, parent, preserveID, limit) ==
    IF addrs = <<>> THEN [ok |-> TRUE, heap |-> h, addrs |-> <<>>]
    ELSE LET first == Clone(h, Head(addrs), entity, parent, preserveID, limit)
             rest == CloneList(first.heap, Tail(addrs), entity, parent, preserveID, limit)
         IN  IF ~first.ok \/ ~rest.ok THEN [ok |-> FALSE, heap |-> h, addrs |-> <<>>]
             ELSE [ok |-> TRUE, heap |-> rest.heap, addrs |-> <<first.addr>> \o rest.addrs]

(***************************************************************************)
(* SpecNote: notes made by NewNote and linked, converted and opened        *)
(* through the methods of Note.                                            *)
(***************************************************************************)
MaxNotes == 2

\* the lists handed to SetChildren: none or one of the notes made so far
ChildLists(h) == {<<>>} \cup { <<c>> : c \in 1..Len(h) }

InitNote ==
    /\ theme = NoTheme
    /\ heap = <<>>
    /\ call = NoCall
    /\ file = NoCall
    /\ useMult = FALSE
    /\ traits = <<>>
    /\ leaf = NoLeaf
    /\ load = NoCall
    /\ names = NoCall

\* NewNote(entity, parent, container)
NewNote(parent, container) ==
    /\ Len(heap) < MaxNotes
    /\ parent \in 0..Len(heap)
    /\ heap' = Append(heap, NewNoteObject(Len(heap) + 1, NoEntity, parent, container))
    /\ UNCHANGED <<traits, useMult, leaf, call, load, file, names, theme>>

\* n.SetChildren(children)
SetChildren(n, children) ==
    /\ n \in 1..Len(heap) /\ children \in ChildLists(heap)
    /\ heap' = [heap EXCEPT ![n].Children = children]
    /\ UNCHANGED <<traits, useMult, leaf, call, load, file, names, theme>>

\* n.SetParent(parent)
SetParent(n, parent) ==
    /\ n \in 1..Len(heap) /\ parent \in 0..Len(heap)
    /\ heap' = [heap EXCEPT ![n].parent = parent]
    /\ UNCHANGED <<traits, useMult, leaf, call, load, file, names, theme>>

\* n.SetOpen(open)
SetOpen(n, open) ==
    /\ n \in 1..Len(heap)
    /\ heap' = [heap EXCEPT ![n].IsOpen = open /\ Container(heap[n])]
    /\ UNCHANGED <<traits, useMult, leaf, call, load, file, names, theme>>

\* Note.ConvertToContainer: the kind of the identifier is replaced
NoteConvertToContainer(o) == [o EXCEPT !.TID.kind = KindNoteContainer]

\* Note.ConvertToNonContainer with a newly made identifier
NoteConvertWithNewTID(o) == [o EXCEPT !.TID = MustNewTID(KindNote, o.TID.serial)]

\* Note.ConvertToNonContainer: the kind of the identifier is replaced
NoteConvertToNonContainer(o) == [o EXCEPT !.TID.kind = KindNote]

\* n.ConvertToContainer()
ConvertToContainer(n) ==
    /\ n \in 1..Len(heap)
    /\ heap' = [heap EXCEPT ![n] = NoteConvertToContainer(@)]
    /\ UNCHANGED <<traits, useMult, leaf, call, load, file, names, theme>>

\* n.ConvertToNonContainer()
ConvertToNonContainer(n) ==
    /\ n \in 1..Len(heap)
    /\ heap' = [heap EXCEPT ![n] = NoteConvertToNonContainer(@)]
    /\ UNCHANGED <<traits, useMult, leaf, call, load, file, names, theme>>

NextNote ==
    \/ \E parent \in 0..MaxNotes, container \in BOOLEAN : NewNote(parent, container)
    \/ \E n \in 1..MaxNotes, c \in 0..MaxNotes :
          SetChildren(n, IF c = 0 THEN <<>> ELSE <<c>>)
    \/ \E n \in 1..MaxNotes, parent \in 0..MaxNotes : SetParent(n, parent)
    \/ \E n \in 1..MaxNotes, open \in BOOLEAN : SetOpen(n, open)
    \/ \E n \in 1..MaxNotes : ConvertToContainer(n)
    \/ \E n \in 1..MaxNotes : ConvertToNonContainer(n)

SpecNote == InitNote /\ [][NextNote]_vars

\* C13: in every state reached through NewNote, ConvertToContainer,
\* ConvertToNonContainer, SetOpen and SetChildren, a note that is not a
\* container has an empty Children list and IsOpen = false.
Cex_C13_LeafNoteFieldsEmpty ==
    \A n \in 1..Len(heap) :
        ~Container(heap[n]) => heap[n].Children = <<>> /\ ~heap[n].IsOpen

\* the note at address n is reached from itself by following parent links
\* (at most as many as there are notes)
RECURSIVE ReachesUp(_, _, _, _)
ReachesUp(h, from, to, steps) ==
    IF steps = 0 \/ h[from].parent = Nil THEN FALSE
    ELSE h[from].parent = to \/ ReachesUp(h, h[from].parent, to, steps - 1)

OwnAncestor(h, n) == ReachesUp(h, n, n, Len(h))

\* C17: no sequence of the construction and linking operations on notes
\* (NewNote, SetParent, SetChildren) reaches a state in which a note is its
\* own ancestor, so that Depth() terminates and returns the number of
\* ancestors.
Cex_C17_NoOwnAncestor == \A n \in 1..Len(heap) : ~OwnAncestor(heap, n)

(***************************************************************************)
(* SpecClone: a small tree of traits, trait modifiers or notes owned by    *)
(* one entity, Clone of one of its nodes, and entries written to the       *)
(* third-party data map through a node afterwards.                         *)
(***************************************************************************)
MaxClones == 1
MaxObjects == 12

\* a third-party data map; an entry names the node it was written through
\* (Nil for what the map held from the start)
NewMap == [class |-> "map", entries |-> {Nil}]

\* the ThirdParty field of a node: a map object or nil
MapOf(present, addr) == IF present THEN addr ELSE Nil

\* one leaf trait of 10 points, with a -50% modifier or without
SceneLeaf(disabled, withModifier) ==
    <<[NewTraitObject(1, "entity1", Nil, FALSE) EXCEPT
           !.Name = "Flight", !.BasePoints = FP(10), !.Disabled = disabled,
           !.Modifiers = IF withModifier THEN <<2>> ELSE <<>>],
      [NewTraitModifierObject(2, "entity1", Nil, FALSE) EXCEPT
           !.Name = "Winged", !.Cost = FP(-50)]>>

\* a trait container with a modifier container holding a +50% modifier, and
\* below it a leaf of 10 points
SceneTree(containerType, disabled, thirdParty) ==
    <<[NewTraitObject(1, "entity1", Nil, TRUE) EXCEPT
           !.Name = "Powers", !.ContainerType = containerType, !.Children = <<2>>,
           !.Modifiers = <<3>>, !.ThirdParty = MapOf(thirdParty, 5)],
      [NewTraitObject(2, "entity1", 1, FALSE) EXCEPT
           !.Name = "Flight", !.BasePoints = FP(10), !.Disabled = disabled],
      [NewTraitModifierObject(3, "entity1", Nil, TRUE) EXCEPT !.Children = <<4>>],
      [NewTraitModifierObject(4, "entity1", 3, FALSE) EXCEPT
           !.Name = "Cosmic", !.Cost = FP(50)],
      NewMap>>

\* a trait modifier container holding a leaf modifier
SceneModifiers(disabled, thirdParty) ==
    <<[NewTraitModifierObject(1, "entity1", Nil, TRUE) EXCEPT
           !.Children = <<2>>, !.ThirdParty = MapOf(thirdParty, 3)],
      [NewTraitModifierObject(2, "entity1", 1, FALSE) EXCEPT
           !.Name = "Cosmic", !.Cost = FP(50), !.Disabled = disabled],
      NewMap>>

\* a note container holding a note
SceneNotes(open, thirdParty) ==
    <<[NewNoteObject(1, "entity1", Nil, TRUE) EXCEPT
           !.Children = <<2>>, !.IsOpen = open, !.ThirdParty = MapOf(thirdParty, 3)],
      [NewNoteObject(2, "entity1", 1, FALSE) EXCEPT !.ThirdParty = MapOf(thirdParty, 3 + 1)],
      NewMap, NewMap>>

Scenes ==
    { SceneLeaf(disabled, withModifier) : disabled \in BOOLEAN, withModifier \in BOOLEAN }
    \cup { SceneTree(containerType, disabled, thirdParty) :
             containerType \in ContainerTypes, disabled \in BOOLEAN, thirdParty \in BOOLEAN }
    \cup { SceneModifiers(disabled, thirdParty) : disabled \in BOOLEAN, thirdParty \in BOOLEAN }
    \cup { SceneNotes(open, thirdParty) : open \in BOOLEAN, thirdParty \in BOOLEAN }

\* the nodes of the store (every object but the maps)
NodesOf(h) == { a \in 1..Len(h) : h[a].class # "map" }

NoClone == [op |-> "none", clones |-> 0]

InitClone ==
    /\ theme = NoTheme
    /\ heap \in Scenes
    /\ call = NoClone
    /\ useMult = FALSE
    /\ file = NoCall
    /\ traits = <<>>
    /\ leaf = NoLeaf
    /\ load = NoCall
    /\ names = NoCall

\* source.Clone(entity, parent, preserveID)
CallClone(source, entity, parent, preserveID) ==
    /\ call.clones < MaxClones
    /\ source \in NodesOf(heap)
    /\ parent = Nil \/ (parent \in NodesOf(heap) /\ heap[parent].class = heap[source].class)
    /\ LET cloned == Clone(heap, source, entity, parent, preserveID, MaxObjects)
       IN  /\ cloned.ok
           /\ heap' = cloned.heap
           /\ call' = [op |-> "Clone", clones |-> call.clones + 1, source |-> source,
                       clone |-> cloned.addr, entity |-> entity, parent |-> parent,
                       preserveID |-> preserveID, before |-> heap]
    /\ UNCHANGED <<traits, useMult, leaf, load, file, names, theme>>

\* node.ThirdParty[key] = value on the source or the clone, the key naming
\* the node written through
PutThirdParty(node) ==
    /\ call.op = "Clone"
    /\ node \in {call.source, call.clone} /\ heap[node].ThirdParty # Nil
    /\ heap' = [heap EXCEPT ![heap[node].ThirdParty].entries = @ \cup {node}]
    /\ UNCHANGED <<traits, useMult, leaf, call, load, file, names, theme>>

NextClone ==
    \/ \E source \in 1..MaxObjects, entity \in Entities, parent \in 0..MaxObjects,
          preserveID \in BOOLEAN : CallClone(source, entity, parent, preserveID)
    \/ \E node \in 1..MaxObjects : PutThirdParty(node)

SpecClone == InitClone /\ [][NextClone]_vars

\* Trait.Description
TraitDescription(t) == t.Name

\* the identifier of a node
IdOf(o) == IF o.class = "note" THEN o.TID ELSE o.LocalID

\* a Clone of a trait has returned
TraitCloned == call.op = "Clone" /\ heap[call.source].class = "trait"

Cex_C15_NothingShared ==
    \A node \in NodesOf(heap) :
        heap[node].ThirdParty # Nil =>
            heap[heap[node].ThirdParty].entries \subseteq {Nil, node}

\* the pairs of a node of the source structure and its counterpart in the
\* cloned structure: the roots, their children and their modifiers, in order
RECURSIVE Counterparts(_, _, _)
Counterparts(h, s, c) ==
    {<<s, c>>}
    \cup (IF HasChildren(h[s])
          THEN UNION { Counterparts(h, h[s].Children[i], h[c].Children[i]) :
                         i \in 1..Len(h[s].Children) }
          ELSE {})
    \cup (IF h[s].class = "trait"
          THEN UNION { Counterparts(h, h[s].Modifiers[i], h[c].Modifiers[i]) :
                         i \in 1..Len(h[s].Modifiers) }
          ELSE {})

\* C16: Clone with preserveID = false gives the root, every descendant and
\* every modifier attached to them an identifier that differs from its
\* source counterpart's and has the same kind; with preserveID = true each
\* of them keeps its source identifier.
Cex_C16_EveryIdentifier ==
    call.op = "Clone" =>
        \A pair \in Counterparts(heap, call.source, call.clone) :
            LET source == IdOf(heap[pair[1]])
                clone == IdOf(heap[pair[2]])
            IN  /\ clone.kind = source.kind
                /\ IF call.preserveID THEN clone = source ELSE clone # source

(***************************************************************************)
(* SpecOwner: SetOwningEntity called on the nodes of a small tree.         *)
(***************************************************************************)
\* SetOwningEntity(entity) of the node at address a and of a list of nodes.
\* Weapons are values of the model and have no owner field.
RECURSIVE SetOwningEntity(_, _, _), SetOwningEntityList(_, _, _)
SetOwningEntityOfTraitsOnly(h, a, entity) ==
    LET own == [h EXCEPT ![a].Entity = entity]
    IN  IF Container(h[a]) /\ h[a].class = "trait"
        THEN SetOwningEntityList(own, h[a].Children, entity)
        ELSE own

SetOwningEntity(h, a, entity) ==
    LET own == [h EXCEPT ![a].Entity = entity]
        below == IF Container(h[a]) THEN SetOwningEntityList(own, h[a].Children, entity)
                 ELSE own
    IN  IF h[a].class = "trait" THEN SetOwningEntityList(below, h[a].Modifiers, entity)
        ELSE below

SetOwningEntityList(h, addrs, entity) ==
    IF addrs = <<>> THEN h
    ELSE SetOwningEntityList(SetOwningEntity(h, Head(addrs), entity), Tail(addrs), entity)

InitOwner ==
    /\ theme = NoTheme
    /\ heap \in Scenes
    /\ call = NoCall
    /\ useMult = FALSE
    /\ file = NoCall
    /\ traits = <<>>
    /\ leaf = NoLeaf
    /\ load = NoCall
    /\ names = NoCall

\* node.SetOwningEntity(entity)
CallSetOwningEntity(node, entity) ==
    /\ node \in NodesOf(heap)
    /\ heap' = SetOwningEntity(heap, node, entity)
    /\ call' = [op |-> "SetOwningEntity", node |-> node, entity |-> entity]
    /\ UNCHANGED <<traits, useMult, leaf, load, file, names, theme>>

NextOwner ==
    \E node \in 1..MaxObjects, entity \in Entities \cup {NoEntity} :
        CallSetOwningEntity(node, entity)

SpecOwner == InitOwner /\ [][NextOwner]_vars

\* the node x is the node a or has it among its ancestors
Under(h, x, a) == x = a \/ ReachesUp(h, x, a, Len(h))

\* the node a and its descendants, by the parent links
Subtree(h, a) == { x \in NodesOf(h) : h[x].class = h[a].class /\ Under(h, x, a) }

\* the modifiers attached to the traits of a set, and the modifiers below
\* those in modifier containers
AttachedModifiers(h, ts) ==
    { m \in NodesOf(h) :
        /\ h[m].class = "modifier"
        /\ \E t \in ts : h[t].class = "trait"
             /\ \E i \in 1..Len(h[t].Modifiers) : Under(h, m, h[t].Modifiers[i]) }

\* C18: after SetOwningEntity(e) on a trait, a trait modifier or a note,
\* the owning entity of the node, of each of its descendants and, for a
\* trait, of every modifier attached to any of them (the children of
\* modifier containers included) is e.
Thm_C18_OwnerPropagated ==
    call.op = "SetOwningEntity" =>
        LET nodes == Subtree(heap, call.node)
        IN  \A x \in nodes \cup AttachedModifiers(heap, nodes) :
                heap[x].Entity = call.entity

\* a trait container of entity1 handed to entity2: its child trait, its
\* modifier container and the modifier inside are now entity2's
Wit_C18_WholeTraitTree ==
    /\ call.op = "SetOwningEntity" /\ call.entity = "entity2"
    /\ heap[call.node].class = "trait" /\ HasChildren(heap[call.node])
    /\ \E m \in AttachedModifiers(heap, Subtree(heap, call.node)) :
          heap[m].parent # Nil /\ heap[m].Entity = "entity2"
    /\ \E t \in Subtree(heap, call.node) : t # call.node /\ heap[t].Entity = "entity2"

(***************************************************************************)
(* Nameable keys.  A text is a sequence of tokens: a word, or a key        *)
(* standing between its delimiters.  Extract and Apply are not part of the *)
(* sources at hand: Extract records every key found that the map does not  *)
(* hold yet, with the token as it stands in the text as its value, and     *)
(* Apply replaces every token whose key the map holds by the map's value.  *)
(***************************************************************************)
Word(s) == [key |-> FALSE, s |-> s]

Key(s) == [key |-> TRUE, s |-> s]

EmptyMap == [k \in {} |-> <<>>]

\* Extract(str, m)
RECURSIVE Extract(_, _)
Extract(str, m) ==
    IF str = <<>> THEN m
    ELSE LET one == Head(str)
         IN  Extract(Tail(str),
                     IF one.key /\ one.s \notin DOMAIN m THEN m @@ (one.s :> <<one>>) ELSE m)

\* Apply(str, m)
RECURSIVE Apply(_, _)
Apply(str, m) ==
    IF str = <<>> THEN <<>>
    ELSE LET one == Head(str)
         IN  (IF one.key /\ one.s \in DOMAIN m THEN m[one.s] ELSE <<one>>)
             \o Apply(Tail(str), m)

\* one.FillWithNameableKeys(m) over a list of features, of weapons or of the
\* prerequisites, each holding one text
RECURSIVE ExtractAll(_, _)
ExtractAll(list, m) ==
    IF list = <<>> THEN m ELSE ExtractAll(Tail(list), Extract(Head(list), m))

\* one.ApplyNameableKeys(m) over such a list
ApplyAll(list, m) == [i \in 1..Len(list) |-> Apply(list[i], m)]

\* TraitModifier.Enabled
TraitModifierEnabled(o) == (~o.Disabled) \/ Container(o)

\* Traverse(f, true, true, in...) over the store: the addresses the callback
\* is handed (enabled non-containers, descending into enabled containers)
RECURSIVE TraverseObjects(_, _)
TraverseObjects(h, in) ==
    IF in = <<>> THEN <<>>
    ELSE LET one == h[Head(in)]
             visit == IF TraitModifierEnabled(one) /\ ~Container(one)
                      THEN <<Head(in)>> ELSE <<>>
             below == IF TraitModifierEnabled(one) /\ HasChildren(one)
                      THEN TraverseObjects(h, one.Children) ELSE <<>>
         IN  visit \o below \o TraverseObjects(h, Tail(in))

\* TraitModifier.FillWithNameableKeys
ModifierFillWithNameableKeys(o, keyMap) ==
    IF ~Container(o) /\ TraitModifierEnabled(o)
    THEN ExtractAll(o.Features, Extract(o.LocalNotes, Extract(o.Name, keyMap)))
    ELSE keyMap

\* TraitModifier.ApplyNameableKeys
ModifierApplyNameableKeys(o, keyMap) ==
    IF ~Container(o) /\ TraitModifierEnabled(o)
    THEN [o EXCEPT !.Name = Apply(o.Name, keyMap),
                   !.LocalNotes = Apply(o.LocalNotes, keyMap),
                   !.Features = ApplyAll(o.Features, keyMap)]
    ELSE o

\* lines 925-928: the callback over the modifiers Traverse visits
RECURSIVE FillFromModifiers(_, _, _)
FillFromModifiers(h, mods, m) ==
    IF mods = <<>> THEN m
    ELSE FillFromModifiers(h, Tail(mods), ModifierFillWithNameableKeys(h[Head(mods)], m))

\* Trait.FillWithNameableKeys
TraitFillWithNameableKeys(h, a, m) ==
    LET t == h[a]
        m1 == Extract(t.UserDesc, Extract(t.LocalNotes, Extract(t.Name, m)))
        m2 == IF t.Prereq THEN Extract(t.PrereqName, m1) ELSE m1
        m3 == ExtractAll(t.Weapons, ExtractAll(t.Features, m2))
    IN  FillFromModifiers(h, TraverseObjects(h, t.Modifiers), m3)

\* lines 945-948: the callback over the modifiers Traverse visits
RECURSIVE ApplyToModifiers(_, _, _)
ApplyToModifiers(h, mods, m) ==
    IF mods = <<>> THEN h
    ELSE ApplyToModifiers([h EXCEPT ![Head(mods)] = ModifierApplyNameableKeys(@, m)],
                          Tail(mods), m)

\* Trait.ApplyNameableKeys without the user description
TraitApplyWithoutUserDesc(h, a, m) ==
    LET t == h[a]
        own == [t EXCEPT !.Name = Apply(t.Name, m),
                         !.LocalNotes = Apply(t.LocalNotes, m),
                         !.PrereqName = IF t.Prereq THEN Apply(t.PrereqName, m) ELSE @,
                         !.Features = ApplyAll(t.Features, m),
                         !.Weapons = ApplyAll(t.Weapons, m)]
    IN  ApplyToModifiers([h EXCEPT ![a] = own], TraverseObjects(h, t.Modifiers), m)

\* Trait.ApplyNameableKeys
TraitApplyNameableKeys(h, a, m) ==
    LET t == h[a]
        own == [t EXCEPT !.Name = Apply(t.Name, m),
                         !.LocalNotes = Apply(t.LocalNotes, m),
                         !.UserDesc = Apply(t.UserDesc, m),
                         !.PrereqName = IF t.Prereq THEN Apply(t.PrereqName, m) ELSE @,
                         !.Features = ApplyAll(t.Features, m),
                         !.Weapons = ApplyAll(t.Weapons, m)]
    IN  ApplyToModifiers([h EXCEPT ![a] = own], TraverseObjects(h, t.Modifiers), m)

\* FillWithNameableKeys of the node at address a
FillWithNameableKeys(h, a, m) ==
    IF h[a].class = "trait" THEN TraitFillWithNameableKeys(h, a, m)
    ELSE IF h[a].class = "modifier" THEN ModifierFillWithNameableKeys(h[a], m)
    ELSE Extract(h[a].Text, m)

\* ApplyNameableKeys of the node at address a
ApplyNameableKeys(h, a, m) ==
    IF h[a].class = "trait" THEN TraitApplyNameableKeys(h, a, m)
    ELSE IF h[a].class = "modifier"
         THEN [h EXCEPT ![a] = ModifierApplyNameableKeys(h[a], m)]
    ELSE [h EXCEPT ![a].Text = Apply(h[a].Text, m)]

(***************************************************************************)
(* SpecNames: FillWithNameableKeys and ApplyNameableKeys over a trait with *)
(* its modifiers, and over a note.                                         *)
(***************************************************************************)
\* a trait with texts
NamedTrait(addr, container, disabled, prereq, modifiers, k) ==
    [LocalNotes |-> <<Key(k[2]), Word("only")>>, UserDesc |-> <<Key(k[3])>>,
     PrereqName |-> <<Key(k[4])>>]
    @@ [NewTraitObject(addr, "entity1", Nil, container) EXCEPT
            !.Name = <<Word("Hates"), Key(k[1])>>, !.Disabled = disabled,
            !.Prereq = prereq, !.Features = <<<<Key(k[5])>>>>,
            !.Weapons = <<<<Key(k[6]), Word("bite")>>>>, !.Modifiers = modifiers]

\* a trait modifier with texts
NamedModifier(addr, parent, container, disabled, children, k) ==
    [LocalNotes |-> <<Key(k[2])>>]
    @@ [NewTraitModifierObject(addr, "entity1", parent, container) EXCEPT
            !.Name = <<Key(k[1]), Word("only")>>, !.Disabled = disabled,
            !.Features = <<<<Key(k[3])>>>>, !.Children = children]

\* the keys of the texts: one key for every text, or one key for all
OwnKeys == <<"a", "b", "c", "d", "e", "f", "g", "h", "i", "j", "k", "l", "m", "n",
             "o", "p">>

SameKey == [i \in 1..Len(OwnKeys) |-> "who"]

KeysFrom(k, from) == [i \in 1..(Len(k) - from) |-> k[i + from]]

\* a trait with a modifier, a modifier container holding a modifier, and
\* a note
SceneNames(container, disabled, prereq, modDisabled, k) ==
    <<NamedTrait(1, container, disabled, prereq, <<2, 3>>, k),
      NamedModifier(2, Nil, FALSE, modDisabled, <<>>, KeysFrom(k, 6)),
      NamedModifier(3, Nil, TRUE, FALSE, <<4>>, KeysFrom(k, 9)),
      NamedModifier(4, 3, FALSE, FALSE, <<>>, KeysFrom(k, 12)),
      [NewNoteObject(5, "entity1", Nil, FALSE) EXCEPT !.Text = <<Word("See"), Key(k[16])>>]>>

NameScenes ==
    { SceneNames(container, disabled, prereq, modDisabled, k) :
        container \in BOOLEAN, disabled \in BOOLEAN, prereq \in BOOLEAN,
        modDisabled \in BOOLEAN, k \in {OwnKeys, SameKey} }

MaxApplies == 1

NoNames == [op |-> "none", node |-> Nil, from |-> Nil, map |-> EmptyMap,
            defaults |-> TRUE, before |-> <<>>, applies |-> 0]

InitNames ==
    /\ theme = NoTheme
    /\ heap \in NameScenes
    /\ names = NoNames
    /\ call = NoCall
    /\ useMult = FALSE
    /\ file = NoCall
    /\ traits = <<>>
    /\ leaf = NoLeaf
    /\ load = NoCall

\* node.FillWithNameableKeys(m), m being a new map
CallFillWithNameableKeys(node) ==
    /\ node \in NodesOf(heap)
    /\ names' = [op |-> "Fill", node |-> node, from |-> node,
                 map |-> FillWithNameableKeys(heap, node, EmptyMap),
                 defaults |-> TRUE, before |-> heap, applies |-> names.applies]
    /\ UNCHANGED <<traits, useMult, leaf, call, load, file, heap, theme>>

\* the user names a key of the map
SetName(k) ==
    /\ k \in DOMAIN names.map
    /\ names.defaults
    /\ names' = [names EXCEPT !.op = "Set", !.map[k] = <<Word("Bob")>>, !.defaults = FALSE]
    /\ UNCHANGED <<traits, useMult, leaf, call, load, file, heap, theme>>

\* node.ApplyNameableKeys(m), m being the map at hand
CallApplyNameableKeys(node) ==
    /\ node \in NodesOf(heap)
    /\ names.op # "none"
    /\ names.applies < MaxApplies
    /\ heap' = ApplyNameableKeys(heap, node, names.map)
    /\ names' = [names EXCEPT !.op = "Apply", !.node = node,
                              !.before = heap, !.applies = @ + 1]
    /\ UNCHANGED <<traits, useMult, leaf, call, load, file, theme>>

NextNames ==
    \/ \E node \in 1..MaxObjects : CallFillWithNameableKeys(node)
    \/ \E k \in {OwnKeys[i] : i \in 1..Len(OwnKeys)} \cup {"who"} : SetName(k)
    \/ \E node \in 1..MaxObjects : CallApplyNameableKeys(node)

SpecNames == InitNames /\ [][NextNames]_vars

\* the keys of a text
KeysIn(str) == { str[i].s : i \in { j \in 1..Len(str) : str[j].key } }

\* the fields of a node that hold one text, and those that hold a list of
\* features or weapons
TextFields(o) ==
    IF o.class = "trait" THEN {"Name", "LocalNotes", "UserDesc", "PrereqName"}
    ELSE IF o.class = "modifier" THEN {"Name", "LocalNotes"}
    ELSE {"Text"}

ListFields(o) ==
    IF o.class = "trait" THEN {"Features", "Weapons"}
    ELSE IF o.class = "modifier" THEN {"Features"}
    ELSE {}

\* the keys in the texts of a node
KeysOfNode(o) ==
    UNION { KeysIn(o[f]) : f \in TextFields(o) }
    \cup UNION { UNION { KeysIn(o[f][i]) : i \in 1..Len(o[f]) } : f \in ListFields(o) }

\* the keys no other node of the store holds
KeysOnlyIn(h, x) ==
    KeysOfNode(h[x]) \ UNION { KeysOfNode(h[y]) : y \in NodesOf(h) \ {x} }

\* a trait or a trait modifier that is disabled or is a container
DisabledOrContainer(o) ==
    o.class \in {"trait", "modifier"} /\ (o.Disabled \/ Container(o))

\* C19: FillWithNameableKeys adds no key from, and ApplyNameableKeys changes
\* no text field of, a trait or a trait modifier that is disabled or that is
\* a container.
Cex_C19_DisabledAndContainersSkipped ==
    /\ names.op = "Fill" =>
          \A x \in NodesOf(heap) :
              DisabledOrContainer(heap[x]) => KeysOnlyIn(heap, x) \cap DOMAIN names.map = {}
    /\ names.op = "Apply" =>
          \A x \in NodesOf(names.before) :
              DisabledOrContainer(names.before[x]) => heap[x] = names.before[x]

\* the store with every text emptied but the field f of the node x, which
\* holds one key
Probe(h, x, f) ==
    [y \in 1..Len(h) |->
        [fld \in DOMAIN h[y] |->
            IF fld \in TextFields(h[y])
            THEN (IF y = x /\ fld = f THEN <<Key("probe")>> ELSE <<>>)
            ELSE IF fld \in ListFields(h[y])
                 THEN (IF y = x /\ fld = f THEN <<<<Key("probe")>>>> ELSE <<>>)
            ELSE h[y][fld]]]

FieldsOf(h) ==
    UNION { { <<x, f>> : f \in TextFields(h[x]) \cup ListFields(h[x]) } : x \in NodesOf(h) }

\* the fields e.FillWithNameableKeys scans
ScannedFields(h, e) ==
    { xf \in FieldsOf(h) :
        "probe" \in DOMAIN FillWithNameableKeys(Probe(h, xf[1], xf[2]), e, EmptyMap) }

\* the fields e.ApplyNameableKeys rewrites
RewrittenFields(h, e) ==
    { xf \in FieldsOf(h) :
        LET p == Probe(h, xf[1], xf[2])
        IN  ApplyNameableKeys(p, e, "probe" :> <<Word("Bob")>>)[xf[1]][xf[2]]
            # p[xf[1]][xf[2]] }

LegacyModifierRow ==
    [ModifierRow(TID(KindTraitModifier, 0)) EXCEPT
        !.type = "modifier", !.tags = <<TagPhysical, TagExotic>>, !.cost = FP(10)]

\* the leaf rows of old documents
LegacyLeafRows ==
    { [TraitRow(TID(KindTrait, 0)) EXCEPT
           !.type = "advantage", !.tags = tags, !.mental = mental,
           !.physical = physical, !.social = social, !.exotic = exotic,
           !.supernatural = supernatural, !.modifiers = modifiers,
           !.base_points = FP(5)] :
        tags \in {<<>>, <<TagSupernatural, TagMental>>},
        mental \in BOOLEAN, physical \in BOOLEAN, social \in BOOLEAN,
        exotic \in BOOLEAN, supernatural \in BOOLEAN,
        modifiers \in {<<>>, <<LegacyModifierRow>>} }

\* the container rows of old documents, holding one leaf
LegacyContainerRows ==
    { [TraitRow(TID(KindTraitContainer, 0)) EXCEPT
           !.type = "advantage_container", !.tags = <<TagMagic>>, !.mental = mental,
           !.exotic = TRUE, !.open = TRUE,
           !.children = <<[TraitRow(TID(KindTrait, 0)) EXCEPT
                              !.type = "advantage", !.social = TRUE,
                              !.tags = <<TagSocial, TagMagic>>]>>] :
        mental \in BOOLEAN }

LegacyDocuments ==
    [type : {"advantage_list"},
     version : {MinimumDataVersion, CurrentDataVersion - 1},
     rows : RowSeqs(LegacyLeafRows \cup LegacyContainerRows)]

InitLegacy ==
    /\ theme = NoTheme
    /\ \E doc \in LegacyDocuments :
            file = [phase |-> "document", class |-> "trait", doc |-> doc, rows |-> <<>>,
                    err |-> NoError, saved |-> NoFile]
    /\ heap = <<>>
    /\ useMult = FALSE
    /\ traits = <<>>
    /\ leaf = NoLeaf
    /\ call = NoCall
    /\ load = NoCall
    /\ names = NoCall

SpecLegacy == InitLegacy /\ [][NextFile]_vars

\* the rows of a list with the rows below them, in the order their objects
\* are decoded: the children of a row, its modifiers, the row
RECURSIVE RowsInOrder(_, _)
RowsInOrder(rows, class) ==
    IF rows = <<>> THEN <<>>
    ELSE LET row == Head(rows)
         IN  RowsInOrder(row.children, class)
             \o (IF class = "trait" THEN RowsInOrder(row.modifiers, "modifier") ELSE <<>>)
             \o <<[row |-> row, class |-> class]>>
             \o RowsInOrder(Tail(rows), class)

Count(x, s) == Cardinality({ i \in 1..Len(s) : s[i] = x })

Sorted(s) == \A i \in 1..(Len(s) - 1) : s[i] <= s[i + 1]

\* the flag of a trait row that stands for the tag
FlagOf(row, tag) ==
    CASE tag = TagMental -> row.mental
      [] tag = TagPhysical -> row.physical
      [] tag = TagSocial -> row.social
      [] tag = TagExotic -> row.exotic
      [] tag = TagSupernatural -> row.supernatural
      [] OTHER -> FALSE

AllTags == {TagExotic, TagMagic, TagMental, TagPhysical, TagSocial, TagSupernatural}

\* the tags of the object are those of its row and one tag for every flag
\* set whose tag the row did not hold
FlagsMigrated(o, row) ==
    \A tag \in AllTags :
        Count(tag, o.Tags) = IF FlagOf(row, tag) /\ Count(tag, row.tags) = 0
                             THEN 1 ELSE Count(tag, row.tags)

LegacyLoaded == file.phase = "loaded" /\ file.doc.type = "advantage_list"

ValidDocument(doc, class) ==
    /\ doc.type = ListTypeKey(class) \/ (class = "trait" /\ doc.type = "advantage_list")
    /\ CheckVersion(doc.version) = NoError

\* C22: the load of an otherwise valid document succeeds and returns a node
\* for every row, whatever is wrong with one of its rows (an identifier that
\* is no valid TID of the class together with an unrecognized type string).
Cex_C22_MalformedItemTolerated ==
    (file.phase = "loaded" /\ ValidDocument(file.doc, file.class)) =>
        /\ file.err = NoError
        /\ Len(file.rows) = Len(file.doc.rows)

\* the row of a saved node and the rows below it hold none of the fields
\* the kind of the node rules out
RECURSIVE UnusedKeysEmpty(_, _)
UnusedKeysEmpty(row, class) ==
    LET isContainer == row.id.kind \in {KindTraitContainer, KindTraitModifierContainer,
                                        KindNoteContainer}
    IN  /\ \A i \in 1..Len(row.children) : UnusedKeysEmpty(row.children[i], class)
        /\ ~isContainer => row.children = <<>> /\ ~row.open
        /\ (class = "modifier" /\ isContainer) =>
              /\ row.cost = 0 /\ row.levels = 0 /\ row.affects = Total
              /\ row.cost_type = Percentage /\ ~row.disabled /\ row.features = <<>>
        /\ class = "trait" =>
              /\ \A i \in 1..Len(row.modifiers) : UnusedKeysEmpty(row.modifiers[i], "modifier")
              /\ IF isContainer
                 THEN /\ row.base_points = 0 /\ row.levels = 0 /\ row.points_per_level = 0
                      /\ ~row.can_level /\ ~row.round_down /\ ~row.prereqs
                      /\ row.weapons = <<>> /\ row.features = <<>> /\ row.study = <<>>
                 ELSE /\ row.container_type = Group /\ row.ancestry = ""
                      /\ ~row.template_picker

\* C23: the saved document of a trait, trait modifier or note list holds the
\* list type key of its class and the current data version, whatever type
\* and version it was loaded from, and every saved row is written from a node
\* whose fields its kind rules out have been cleared.
Cex_C23_SavedCurrentAndCleared ==
    file.phase = "saved" =>
        /\ file.saved.type = ListTypeKey(file.class)
        /\ file.saved.version = CurrentDataVersion
        /\ \A i \in 1..Len(file.saved.rows) : UnusedKeysEmpty(file.saved.rows[i], file.class)

(***************************************************************************)
(* SpecConvert: notes made by NewNote and converted to and from containers; *)
(* call holds the last conversion, the identifier it found, and the        *)
(* conversion before it.                                                    *)
(***************************************************************************)
NoConversion == [op |-> "none", node |-> Nil, was |-> TID(KindNote, 0)]

NoConvert == [op |-> "none", node |-> Nil, was |-> TID(KindNote, 0), prev |-> NoConversion]

InitConvert ==
    /\ theme = NoTheme
    /\ heap = <<>>
    /\ call = NoConvert
    /\ file = NoCall
    /\ useMult = FALSE
    /\ traits = <<>>
    /\ leaf = NoLeaf
    /\ load = NoCall
    /\ names = NoCall

\* n.ConvertToContainer()
CallConvertToContainer(n) ==
    /\ n \in 1..Len(heap)
    /\ heap' = [heap EXCEPT ![n] = NoteConvertToContainer(@)]
    /\ call' = [op |-> "ConvertToContainer", node |-> n, was |-> heap[n].TID,
                prev |-> [op |-> call.op, node |-> call.node, was |-> call.was]]
    /\ UNCHANGED <<traits, useMult, leaf, load, file, names, theme>>

\* n.ConvertToNonContainer()
CallConvertToNonContainer(n) ==
    /\ n \in 1..Len(heap)
    /\ heap' = [heap EXCEPT ![n] = NoteConvertToNonContainer(@)]
    /\ call' = [op |-> "ConvertToNonContainer", node |-> n, was |-> heap[n].TID,
                prev |-> [op |-> call.op, node |-> call.node, was |-> call.was]]
    /\ UNCHANGED <<traits, useMult, leaf, load, file, names, theme>>

NextConvert ==
    \/ \E parent \in 0..MaxNotes, container \in BOOLEAN : NewNote(parent, container)
    \/ \E n \in 1..MaxNotes : CallConvertToContainer(n)
    \/ \E n \in 1..MaxNotes : CallConvertToNonContainer(n)

SpecConvert == InitConvert /\ [][NextConvert]_vars

\* the last conversion of the node came right after a conversion op of it
After(op) == call.prev.op = op /\ call.prev.node = call.node

\* C24: ConvertToContainer and ConvertToNonContainer replace the kind of the
\* identifier by the note-container kind and by the note kind and leave the
\* rest of it as it was; a second call of the same changes nothing;
\* Container() is true after the first and false after the second; a note
\* converted to a container and back, and a container converted to a note
\* and back, has the identifier it had.
Thm_C24_ConvertFlipsKind ==
    call.op # "none" =>
        LET n == heap[call.node]
        IN  /\ n.TID.serial = call.was.serial
            /\ call.was.kind \in {KindNote, KindNoteContainer}
            /\ call.op = "ConvertToContainer" =>
                  /\ n.TID.kind = KindNoteContainer /\ Container(n)
                  /\ After("ConvertToContainer") => n.TID = call.was
                  /\ (After("ConvertToNonContainer") /\ call.prev.was.kind = KindNoteContainer)
                        => n.TID = call.prev.was
            /\ call.op = "ConvertToNonContainer" =>
                  /\ n.TID.kind = KindNote /\ ~Container(n)
                  /\ After("ConvertToNonContainer") => n.TID = call.was
                  /\ (After("ConvertToContainer") /\ call.prev.was.kind = KindNote)
                        => n.TID = call.prev.was

\* a note made as a leaf has been converted to a container and back
Wit_C24_ThereAndBack ==
    /\ call.op = "ConvertToNonContainer"
    /\ After("ConvertToContainer")
    /\ call.prev.was.kind = KindNote
    /\ call.was.kind = KindNoteContainer
    /\ heap[call.node].Text = "Note"

(***************************************************************************)
(* SpecCalc: list documents of traits and of notes whose calc blocks hold   *)
(* stored points, an unsatisfied reason and resolved notes, loaded and      *)
(* saved as in SpecFile.                                                    *)
(***************************************************************************)
\* the calc blocks a trait row and a note row are stored with
StoredCalcs(class) ==
    IF class = "trait"
    THEN {NoCalc, [points |-> FP(99), unsatisfied_reason |-> "Prerequisites have not been met",
                   resolved_notes |-> "resolved"]}
    ELSE {NoCalc, [points |-> 0, resolved_notes |-> "resolved"]}

\* the row with one calc block and the rows below it with another
WithCalc(row, own, below) ==
    [row EXCEPT !.calc = own,
                !.children = [i \in 1..Len(row.children) |->
                                 [row.children[i] EXCEPT !.calc = below]]]

\* rows of current and of old documents, leaves and containers of a leaf
CalcBaseRows(class) ==
    IF class = "trait"
    THEN { [TraitRow(id) EXCEPT !.type = type, !.base_points = FP(5), !.levels = levels,
                                !.points_per_level = levels] :
             id \in {TID(KindTrait, 1), TID(KindTrait, 0)}, type \in {"", "advantage"},
             levels \in {0, FP(2)} }
         \cup { [TraitRow(TID(KindTraitContainer, 4)) EXCEPT
                    !.children = <<[TraitRow(TID(KindTrait, 2)) EXCEPT !.base_points = FP(5)]>>,
                    !.template_picker = TRUE] }
    ELSE { [NoteRow(id) EXCEPT !.type = type] :
             id \in {TID(KindNote, 1), TID(KindNote, 0)}, type \in {"", "note_container"} }
         \cup { [NoteRow(TID(KindNoteContainer, 2)) EXCEPT
                    !.children = <<NoteRow(TID(KindNote, 1))>>] }

CalcRows(class) ==
    { WithCalc(row, own, below) :
        row \in CalcBaseRows(class), own \in StoredCalcs(class), below \in StoredCalcs(class) }

InitCalc ==
    /\ theme = NoTheme
    /\ \E class \in {"trait", "note"} :
         \E doc \in [type : {ListTypeKey(class)}, version : {CurrentDataVersion},
                     rows : RowSeqs(CalcRows(class))] :
            file = [phase |-> "document", class |-> class, doc |-> doc, rows |-> <<>>,
                    err |-> NoError, saved |-> NoFile]
    /\ heap = <<>>
    /\ useMult \in BOOLEAN
    /\ traits = <<>>
    /\ leaf = NoLeaf
    /\ call = NoCall
    /\ load = NoCall
    /\ names = NoCall

SpecCalc == InitCalc /\ [][NextFile]_vars

\* the load of the document of the state with every calc block emptied
LoadedWithoutCalc == NewFromFile([file.doc EXCEPT !.rows = RowsWithoutCalc(@)], file.class)

\* C25: a document loads into the tree, the top-level list and the error
\* that the same document with its calc blocks emptied loads into, so two
\* documents that differ in calc blocks only load alike; the adjusted points
\* of every loaded node, and the document saved from the loaded tree with
\* the points it stores, are those of the document without calc blocks.
Thm_C25_CalcNeverReadBack ==
    /\ file.phase = "loaded" =>
          /\ heap = LoadedWithoutCalc.heap
          /\ file.rows = LoadedWithoutCalc.rows
          /\ file.err = LoadedWithoutCalc.err
          /\ file.class = "trait" =>
                \A a \in 1..Len(heap) :
                   heap[a].class = "trait" =>
                      ObjectAdjustedPoints(heap, a)
                         = ObjectAdjustedPoints(LoadedWithoutCalc.heap, a)
    /\ file.phase = "saved" =>
          file.saved = SaveToFile(LoadedWithoutCalc.heap, LoadedWithoutCalc.rows,
                                  file.class).doc

\* a trait list is loaded whose rows store points that are not the adjusted
\* points of the loaded traits
Wit_C25_StoredPointsDiffer ==
    /\ file.phase = "loaded" /\ file.err = NoError /\ file.class = "trait"
    /\ Len(file.rows) > 0
    /\ file.doc.rows # RowsWithoutCalc(file.doc.rows)
    /\ \A i \in 1..Len(file.rows) :
          file.doc.rows[i].calc.points # ObjectAdjustedPoints(heap, file.rows[i])

\* Trait.Depth of the object at address a
RECURSIVE ObjectDepth(_, _)
ObjectDepth(h, a) == IF h[a].parent = Nil THEN 0 ELSE 1 + ObjectDepth(h, h[a].parent)

\* the row's identifier is kept if it is a valid trait or trait-container
\* identifier, and is otherwise a new one of the kind of the row's type
TraitIdentifierOf(o, row) ==
    IF IsKindAndValid(row.id, KindTrait) \/ IsKindAndValid(row.id, KindTraitContainer)
    THEN o.LocalID = row.id
    ELSE /\ IsValid(o.LocalID) /\ o.LocalID # row.id
         /\ o.LocalID.kind = IF row.type \in {"trait", "advantage"} THEN KindTrait
                             ELSE KindTraitContainer

\* C26: every trait of a trait list loaded without error has a valid trait
\* or trait-container identifier, the one of its row if that was one and a
\* new one of the kind of the row's type if not; its item and container
\* kinds are the trait kinds and Container() is true exactly when the
\* identifier is of trait-container kind; a container has the children of
\* its row, each with the container as parent and one level deeper.
Cex_C26_LoadedTraitKinds ==
    (file.phase = "loaded" /\ file.err = NoError /\ file.class = "trait") =>
        LET order == RowsInOrder(file.doc.rows, "trait")
        IN  /\ Len(heap) = Len(order)
            /\ \A a \in 1..Len(heap) :
                  heap[a].class = "trait" =>
                     /\ TraitIdentifierOf(heap[a], order[a].row)
                     /\ heap[a].itemKind = KindTrait
                     /\ heap[a].containerKind = KindTraitContainer
                     /\ Container(heap[a]) <=> IsKind(heap[a].LocalID, KindTraitContainer)
                     /\ IsKind(heap[a].LocalID, KindTraitContainer) =>
                           /\ Len(heap[a].Children) = Len(order[a].row.children)
                           /\ \A i \in 1..Len(heap[a].Children) :
                                 /\ heap[heap[a].Children[i]].parent = a
                                 /\ ObjectDepth(heap, heap[a].Children[i])
                                       = ObjectDepth(heap, a) + 1

\* the nodes of the structure cloned into c: c, the nodes below it and the
\* modifiers attached to them
ClonedNodes(h, s, c) == { pair[2] : pair \in Counterparts(h, s, c) }

\* C27: the node Clone(entity, parent, preserveID) returns has the parent
\* argument as its parent, and every child of a node of the cloned subtree
\* has that node as its parent, for traits, trait modifiers and notes.
Cex_C27_CloneParents ==
    call.op = "Clone" =>
        /\ heap[call.clone].parent = call.parent
        /\ \A c \in ClonedNodes(heap, call.source, call.clone) :
              HasChildren(heap[c]) =>
                 \A i \in 1..Len(heap[c].Children) : heap[heap[c].Children[i]].parent = c

\* C28: after Clone(entity, parent, preserveID) of a trait the clone, every
\* node of its cloned subtree and every modifier attached to them (with the
\* modifiers below a modifier container) have the entity argument as owning
\* entity, whatever the owning entity of the source is.
Cex_C28_CloneOwner ==
    TraitCloned =>
        \A c \in ClonedNodes(heap, call.source, call.clone) : heap[c].Entity = call.entity

(***************************************************************************)
(* SpecLevels: a leaf trait and modifiers of every cost type with and      *)
(* without levels, the leaf's AdjustedPoints and the modifiers'            *)
(* CostDescription.                                                        *)
(***************************************************************************)
\* leaf modifiers of the three cost types with no, two and minus one levels
LeveledPool ==
    { LeafMod(costType, cost, levels, aff, FALSE) :
        costType \in {Percentage, Points, Multiplier}, cost \in {FP(5), FP(-10)},
        levels \in {0, FP(2), FP(-1)}, aff \in {Total, LevelsOnly} }

InitLevels ==
    /\ theme = NoTheme
    /\ leaf \in [CanLevel : BOOLEAN, BasePoints : {FP(10)}, Levels : {FP(2)},
                 PointsPerLevel : {FP(5)}, CR : {NoCR}, Modifiers : {<<>>},
                 RoundCostDown : {FALSE}]
    /\ useMult \in BOOLEAN
    /\ call = NoCall
    /\ traits = <<>>
    /\ load = NoCall
    /\ file = NoCall
    /\ heap = <<>>
    /\ names = NoCall

NextLevels ==
    \/ \E m \in LeveledPool \cup {ContainerMod(<<LeafMod(Points, FP(5), FP(2), Total, FALSE)>>)} :
          AddModifier(m)
    \/ CallAdjustedPoints
    \/ \E i \in 1..MaxMods : CallCostDescription(i)

SpecLevels == InitLevels /\ [][NextLevels]_vars

\* the number a cost description shows: sign, integer digits and fraction
\* digits, which follow the "x" of a multiplier
DisplayedMagnitude(m, description) ==
    LET at == IF m.CostType = Multiplier THEN 1 ELSE 0
    IN  (IF description[at + 1] = "-" THEN -1 ELSE 1)
           * (description[at + 2] * fxpMultiplier + description[at + 3])

\* the modifier with the magnitude its description shows as plain cost, and
\* a container with such modifiers
RECURSIVE AsDisplayed(_)
AsDisplayed(m) ==
    IF m.Container
    THEN [m EXCEPT !.Children = [i \in 1..Len(m.Children) |-> AsDisplayed(m.Children[i])]]
    ELSE [m EXCEPT !.Cost = DisplayedMagnitude(m, CostDescription(m)), !.Levels = 0]

\* C29: the magnitude CostDescription shows for a modifier is the one
\* AdjustedPoints takes from CostModifier: cost times levels for a
\* percentage modifier with levels > 0, the plain cost for a points or
\* multiplier modifier and for levels <= 0; so the adjusted points of a
\* trait are those it has with every modifier at its displayed magnitude.
Cex_C29_DisplayedIsContributed ==
    /\ call.op = "CostDescription" =>
          LET m == leaf.Modifiers[call.index]
          IN  ~m.Container =>
                 /\ DisplayedMagnitude(m, call.ret) = CostModifier(m)
                 /\ CostModifier(m) = IF m.CostType = Percentage /\ m.Levels > 0
                                      THEN Mul(m.Cost, m.Levels) ELSE m.Cost
    /\ call.op = "AdjustedPoints" =>
          call.ret = LeafCost([leaf EXCEPT !.Modifiers =
                                  [i \in 1..Len(leaf.Modifiers) |->
                                      AsDisplayed(leaf.Modifiers[i])]], useMult)

(***************************************************************************)
(* SpecColors: the theme colors of model/colors.  A unison.ThemeColor is   *)
(* an object of the store; the current and the factory list hold the       *)
(* addresses of their colors, and the data map of a Colors value maps an   *)
(* ID to the address of a color.  A nil map and an empty map are the       *)
(* empty function.  The state starts after once.Do(initialize).            *)
(***************************************************************************)
MaxColors == 2
MaxThemes == 2
MaxSteps == 4

\* the IDs of initialize, in its order
ThemeIDs == <<"surface", "header", "banding", "focus", "tooltip", "error", "warning">>

\* the color every theme color starts with, and the color a file holds
FactoryColor == [class |-> "color", Light |-> "factory light", Dark |-> "factory dark"]

FileColor == [class |-> "color", Light |-> "file light", Dark |-> "file dark"]

\* initialize: the current list refers to the colors of the toolkit, the
\* factory list to copies of them
initialize ==
    [heap |-> [a \in 1..(2 * MaxColors) |-> FactoryColor],
     current |-> [i \in 1..MaxColors |-> [ID |-> ThemeIDs[i], Color |-> i]],
     factory |-> [i \in 1..MaxColors |-> [ID |-> ThemeIDs[i], Color |-> MaxColors + i]]]

\* the colors Current() and Factory() give, and those of the Colors values
ListColors(h, list) == [i \in 1..Len(list) |-> h[list[i].Color]]

DataColors(h, data) ==
    [c \in 1..MaxThemes |-> [id \in DOMAIN data[c] |-> h[data[c][id]]]]

\* json.Unmarshal(data, &c.data): a new color for every key of the file
RECURSIVE Decode(_, _, _, _)
Decode(h, data, present, i) ==
    IF i > MaxColors THEN [heap |-> h, data |-> data]
    ELSE IF ThemeIDs[i] \in present
         THEN Decode(Append(h, FileColor), data @@ (ThemeIDs[i] :> Len(h) + 1), present, i + 1)
         ELSE Decode(h, data, present, i + 1)

\* the loop of UnmarshalJSON: a copy of the factory color for every ID the
\* map does not hold
RECURSIVE FillMissing(_, _, _, _)
FillMissing(h, data, f, i) ==
    IF i > Len(f) THEN [heap |-> h, data |-> data]
    ELSE IF f[i].ID \in DOMAIN data THEN FillMissing(h, data, f, i + 1)
         ELSE FillMissing(Append(h, h[f[i].Color]), data @@ (f[i].ID :> Len(h) + 1), f, i + 1)

\* Colors.UnmarshalJSON of a file holding the IDs of present
ColorsUnmarshalJSON(h, present, f) ==
    LET decoded == Decode(h, <<>>, present, 1)
    IN  FillMissing(decoded.heap, decoded.data, f, 1)

\* Colors.MarshalJSON: the map is made anew and holds the colors of the
\* current list themselves
ColorsMarshalJSON(cc) ==
    [id \in { cc[i].ID : i \in 1..Len(cc) } |->
        cc[CHOOSE i \in 1..Len(cc) : cc[i].ID = id].Color]

\* Colors.MakeCurrent from entry i of the current list on
RECURSIVE ColorsMakeCurrent(_, _, _, _)
ColorsMakeCurrent(h, data, cc, i) ==
    IF i > Len(cc) THEN h
    ELSE IF cc[i].ID \in DOMAIN data
         THEN ColorsMakeCurrent([h EXCEPT ![cc[i].Color] = h[data[cc[i].ID]]], data, cc, i + 1)
         ELSE ColorsMakeCurrent(h, data, cc, i + 1)

\* Colors.Reset from entry i of the factory list on
RECURSIVE ColorsReset(_, _, _, _)
ColorsReset(h, data, f, i) ==
    IF i > Len(f) THEN [heap |-> h, data |-> data]
    ELSE IF f[i].ID \in DOMAIN data
         THEN ColorsReset([h EXCEPT ![data[f[i].ID]] = h[f[i].Color]], data, f, i + 1)
         ELSE ColorsReset(Append(h, h[f[i].Color]), data @@ (f[i].ID :> Len(h) + 1), f, i + 1)

\* Colors.ResetOne(id) from entry i of the factory list on
RECURSIVE ColorsResetOne(_, _, _, _, _)
ColorsResetOne(h, data, f, id, i) ==
    IF i > Len(f) THEN [heap |-> h, data |-> data]
    ELSE IF f[i].ID # id THEN ColorsResetOne(h, data, f, id, i + 1)
    ELSE IF id \in DOMAIN data
         THEN [heap |-> [h EXCEPT ![data[id]] = h[f[i].Color]], data |-> data]
         ELSE [heap |-> Append(h, h[f[i].Color]), data |-> data @@ (id :> Len(h) + 1)]

InitColors ==
    /\ heap = initialize.heap
    /\ theme = [op |-> "initialize", c |-> 0, id |-> "", steps |-> 0,
                current |-> initialize.current, factory |-> initialize.factory,
                data |-> [c \in 1..MaxThemes |-> <<>>],
                was |-> [current |-> <<>>, factory |-> <<>>, data |-> <<>>]]
    /\ traits = <<>>
    /\ useMult = FALSE
    /\ leaf = NoLeaf
    /\ call = NoCall
    /\ load = NoCall
    /\ file = NoCall
    /\ names = NoCall

\* the call op of the Colors value c, with the colors it found
Called(op, c, id, data) ==
    [theme EXCEPT !.op = op, !.c = c, !.id = id, !.steps = @ + 1, !.data[c] = data,
                  !.was = [current |-> ListColors(heap, theme.current),
                           factory |-> ListColors(heap, theme.factory),
                           data |-> DataColors(heap, theme.data)]]

\* json.Unmarshal into the Colors value c
CallUnmarshalJSON(c, present) ==
    /\ theme.steps < MaxSteps
    /\ LET loaded == ColorsUnmarshalJSON(heap, present, theme.factory)
       IN  /\ heap' = loaded.heap
           /\ theme' = Called("UnmarshalJSON", c, "", loaded.data)
    /\ UNCHANGED <<traits, useMult, leaf, call, load, file, names>>

\* json.Marshal of the Colors value c
CallMarshalJSON(c) ==
    /\ theme.steps < MaxSteps
    /\ theme' = Called("MarshalJSON", c, "", ColorsMarshalJSON(theme.current))
    /\ UNCHANGED <<traits, useMult, leaf, call, load, file, heap, names>>

\* c.Save(filePath): MarshalJSON runs on the copy of c held by fileData
CallSave(c) ==
    /\ theme.steps < MaxSteps
    /\ theme' = Called("Save", c, "", theme.data[c])
    /\ UNCHANGED <<traits, useMult, leaf, call, load, file, heap, names>>

\* c.MakeCurrent()
CallMakeCurrent(c) ==
    /\ theme.steps < MaxSteps
    /\ heap' = ColorsMakeCurrent(heap, theme.data[c], theme.current, 1)
    /\ theme' = Called("MakeCurrent", c, "", theme.data[c])
    /\ UNCHANGED <<traits, useMult, leaf, call, load, file, names>>

\* c.Reset()
CallReset(c) ==
    /\ theme.steps < MaxSteps
    /\ LET reset == ColorsReset(heap, theme.data[c], theme.factory, 1)
       IN  /\ heap' = reset.heap
           /\ theme' = Called("Reset", c, "", reset.data)
    /\ UNCHANGED <<traits, useMult, leaf, call, load, file, names>>

\* c.ResetOne(id)
CallResetOne(c, id) ==
    /\ theme.steps < MaxSteps
    /\ LET reset == ColorsResetOne(heap, theme.data[c], theme.factory, id, 1)
       IN  /\ heap' = reset.heap
           /\ theme' = Called("ResetOne", c, id, reset.data)
    /\ UNCHANGED <<traits, useMult, leaf, call, load, file, names>>

ColorIDs == { ThemeIDs[i] : i \in 1..MaxColors }

NextColors ==
    \/ \E c \in 1..MaxThemes, present \in SUBSET ColorIDs : CallUnmarshalJSON(c, present)
    \/ \E c \in 1..MaxThemes : CallMarshalJSON(c)
    \/ \E c \in 1..MaxThemes : CallSave(c)
    \/ \E c \in 1..MaxThemes : CallMakeCurrent(c)
    \/ \E c \in 1..MaxThemes : CallReset(c)
    \/ \E c \in 1..MaxThemes, id \in ColorIDs \cup {"unknown"} : CallResetOne(c, id)

SpecColors == InitColors /\ [][NextColors]_vars

\* the colors of the Colors value c after the last call and before it
ColorsNow(c) == DataColors(heap, theme.data)[c]

ColorsBefore(c) == theme.was.data[c]

\* C30: after every operation on a Colors value the colors of Factory()
\* are those before it, and so are the colors of Current() unless the
\* operation is MakeCurrent; Reset and ResetOne leave the colors of every
\* other Colors value as they were, and ResetOne(id) leaves every entry of
\* its own value but the one of id as it was.
Cex_C30_OnlyMakeCurrentChangesCurrent ==
    theme.op # "initialize" =>
        /\ ListColors(heap, theme.factory) = theme.was.factory
        /\ theme.op # "MakeCurrent" => ListColors(heap, theme.current) = theme.was.current
        /\ theme.op \in {"Reset", "ResetOne"} =>
              \A c \in 1..MaxThemes : c # theme.c => ColorsNow(c) = ColorsBefore(c)
        /\ theme.op = "ResetOne" =>
              /\ DOMAIN ColorsNow(theme.c) \subseteq DOMAIN ColorsBefore(theme.c) \cup {theme.id}
              /\ \A id \in DOMAIN ColorsBefore(theme.c) \ {theme.id} :
                    /\ id \in DOMAIN ColorsNow(theme.c)
                    /\ ColorsNow(theme.c)[id] = ColorsBefore(theme.c)[id]

====
